---- MODULE Spec2Model ----
(***************************************************************************)
(* Kalacam-Backend: facial-recognition gatekeeping service.                *)
(*                                                                         *)
(* The model covers the identity store (table usuarios), the image volume, *)
(* the in-memory token set and the HTTP handlers of main.py together with  *)
(* the matching engine of service/usuario_service.py.                      *)
(*                                                                         *)
(* Embeddings are integer vectors; a cosine distance 1 - u.v/(|u||v|) is   *)
(* kept exactly as the pair (u.v, |u|^2|v|^2) and compared by cross        *)
(* multiplication, so comparisons agree with real arithmetic.  All         *)
(* embeddings of one running program come from the one configured model    *)
(* (MODELO_FACIAL) and so have one dimension.                              *)
(***************************************************************************)
EXTENDS Integers, Sequences, FiniteSets, TLC

(***************************************************************************)
(* Bounds of the model.                                                    *)
(***************************************************************************)
\* highest id the AUTO_INCREMENT primary key hands out in the model
MaxId == 2
\* number of files the image volume can hold before a write fails
MaxImagenes == 2

(***************************************************************************)
(* Input domains.                                                          *)
(***************************************************************************)
None == "None"

\* embeddings the matcher is called with on its own
Embeddings == { <<1, 0>>, <<0, 1>>, <<1, 1>>, <<3, -1>>, <<5, 6>> }
\* embeddings the pictures sent to the handlers yield
EmbeddingsFoto == { <<1, 0>>, <<0, 1>>, <<1, 1>> }

\* request form values: a padded name, a blank name
NombresIn == { " Bo ", " " }
ApellidosIn == { "Paz" }
\* a normal address, one with capitals, one that is no address
EmailsIn == { "a@x.io", "B@x.io", "bad" }
ContentTypes == { "image/jpeg", "image/png", "text/plain" }
\* request body: no bytes, bytes that are no image, a decodable picture
Contenidos == { "", "garbage", "foto" }
\* tokens random.randint can draw
Tokens == { "100000" }

(***************************************************************************)
(* String helpers (str.strip, str.lower, the e-mail pattern) on the       *)
(* request values above.                                                   *)
(***************************************************************************)
strip(s) ==
    CASE s = " Bo " -> "Bo"
      [] s = " "    -> ""
      [] OTHER      -> s

lower(s) ==
    CASE s = "B@x.io" -> "b@x.io"
      [] OTHER        -> s

\* re.match(r"^[\w\.-]+@[\w\.-]+\.\w+$", email)
patron_email(s) == s \in { "a@x.io", "B@x.io", "b@x.io" }

\* len(s) > 100: none of the request values is that long
muy_largo(s) == FALSE

(***************************************************************************)
(* Cosine distance, scipy.spatial.distance.cosine.                         *)
(***************************************************************************)
RECURSIVE dot(_, _)
dot(u, v) ==
    IF u = <<>> THEN 0 ELSE Head(u) * Head(v) + dot(Tail(u), Tail(v))

\* the ValueError np.dot raises inside cosine for arrays of different
\* lengths ("shapes not aligned"), in the place of a distance
ValueError == [ num |-> 0, den2 |-> -2 ]

\* Faulty variant of cosine: the norm of the second vector is left out.
cosine_asimetrica(u, v) ==
    IF Len(u) # Len(v) THEN ValueError
    ELSE [ num |-> dot(u, v), den2 |-> dot(u, u) ]

\* Faulty variant of cosine: the norm of the first vector is left out.
cosine_sin_norma(u, v) ==
    IF Len(u) # Len(v) THEN ValueError
    ELSE [ num |-> dot(u, v), den2 |-> dot(v, v) ]

\* the distance 1 - num/sqrt(den2)
cosine(u, v) ==
    IF Len(u) # Len(v) THEN ValueError
    ELSE [ num |-> dot(u, v), den2 |-> dot(u, u) * dot(v, v) ]

\* float("inf")
inf == [ num |-> 0, den2 |-> 0 ]

\* a.num/sqrt(a.den2) > b.num/sqrt(b.den2)
CosGT(a, b) ==
    IF a.num >= 0
    THEN IF b.num < 0 THEN TRUE
         ELSE a.num * a.num * b.den2 > b.num * b.num * a.den2
    ELSE IF b.num >= 0 THEN FALSE
         ELSE a.num * a.num * b.den2 < b.num * b.num * a.den2

\* d1 < d2 on distances, inf included
DistLT(d1, d2) ==
    IF d1 = inf THEN FALSE
    ELSE IF d2 = inf THEN TRUE
    ELSE CosGT(d1, d2)

DistEQ(d1, d2) == ~DistLT(d1, d2) /\ ~DistLT(d2, d1)

\* UMBRAL_SIMILITUD = 0.33, in hundredths
UMBRAL_SIMILITUD == 33

\* distancia < UMBRAL_SIMILITUD
BajoUmbral(d) ==
    /\ d # inf
    /\ d.num > 0
    /\ 10000 * d.num * d.num
         > (100 - UMBRAL_SIMILITUD) * (100 - UMBRAL_SIMILITUD) * d.den2

(***************************************************************************)
(* Descriptor extractor: validarRostro.  cap is what DeepFace.represent    *)
(* does with the decoded picture: the value it returns or the exception    *)
(* it raises.                                                              *)
(***************************************************************************)
\* the outcomes the handlers below are run with: one face with each
\* embedding, no result, an unexpected exception
CapOutcomes ==
    { [ kind |-> "list_dicts", embedding |-> e ] : e \in EmbeddingsFoto }
    \cup { [ kind |-> k, embedding |-> <<>> ] : k \in { "None", "Exception" } }

HTTPException(status_code, detail) ==
    [ ok |-> FALSE, status |-> status_code, detail |-> detail, embedding |-> <<>> ]

\* every outcome of DeepFace.represent: None, a list (empty, of numbers, of
\* dicts with an embedding, of something else), a dict with an embedding,
\* a value of another type, or an exception (ValueError, ImportError, any
\* other)
CapsTodas ==
    { [ kind |-> k, embedding |-> <<>> ] :
        k \in { "None", "empty_list", "list_other", "other",
                "ValueError", "ImportError", "Exception" } }
    \cup { [ kind |-> "list_floats", embedding |-> e ] : e \in Embeddings }
    \cup { [ kind |-> k, embedding |-> e ] :
             k \in { "list_dicts", "dict" }, e \in Embeddings \cup { <<>> } }

\* the outcome r of a call together with the number of times the call
\* invoked DeepFace.represent
ConRepresent(r, n) ==
    [ ok |-> r.ok, status |-> r.status, detail |-> r.detail,
      embedding |-> r.embedding, represent |-> n ]

\* what validarRostro makes of the outcome cap of DeepFace.represent
normalizar(cap) ==
    CASE cap.kind = "None" -> HTTPException(400, "Sin rostro")
      [] cap.kind = "list_floats" ->
           [ ok |-> TRUE, status |-> 200, detail |-> "", embedding |-> cap.embedding ]
      [] cap.kind \in { "empty_list", "list_other" } ->
           HTTPException(400, "Sin rostro")
      [] cap.kind \in { "list_dicts", "dict" } ->
           IF Len(cap.embedding) = 0
           THEN HTTPException(400, "Rostro invalido")
           ELSE [ ok |-> TRUE, status |-> 200, detail |-> "",
                  embedding |-> cap.embedding ]
      [] cap.kind = "other" -> HTTPException(500, "Error inesperado")
      [] cap.kind = "ValueError" -> HTTPException(400, "Rostro no detectado")
      [] cap.kind = "ImportError" -> HTTPException(500, "Error de importación")
      [] OTHER -> HTTPException(500, "Error procesar imagen")

\* Faulty variants of validarRostro: DeepFace.represent is called before
\* the picture is decoded; the length of the embedding is not looked at; an
\* exception of DeepFace.represent is answered by calling it again.
validarRostro_decodifica_despues(contenido, cap) ==
    IF contenido = "" THEN ConRepresent(HTTPException(400, "Sin imagen"), 0)
    ELSE IF contenido = "garbage"
    THEN ConRepresent(HTTPException(400, "Imagen invalida"), 1)
    ELSE ConRepresent(normalizar(cap), 1)

validarRostro_sin_longitud(contenido, cap) ==
    IF contenido = "" THEN ConRepresent(HTTPException(400, "Sin imagen"), 0)
    ELSE IF contenido = "garbage"
    THEN ConRepresent(HTTPException(400, "Imagen invalida"), 0)
    ELSE IF cap.kind \in { "list_dicts", "dict" }
    THEN ConRepresent([ ok |-> TRUE, status |-> 200, detail |-> "",
                        embedding |-> cap.embedding ], 1)
    ELSE ConRepresent(normalizar(cap), 1)

validarRostro_reintenta(contenido, cap) ==
    IF contenido = "" THEN ConRepresent(HTTPException(400, "Sin imagen"), 0)
    ELSE IF contenido = "garbage"
    THEN ConRepresent(HTTPException(400, "Imagen invalida"), 0)
    ELSE ConRepresent(normalizar(cap),
                      IF cap.kind \in { "ValueError", "ImportError", "Exception" }
                      THEN 2 ELSE 1)

validarRostro(contenido, cap) ==
    IF contenido = "" THEN ConRepresent(HTTPException(400, "Sin imagen"), 0)
    ELSE IF contenido = "garbage"
    THEN ConRepresent(HTTPException(400, "Imagen invalida"), 0)
    ELSE ConRepresent(normalizar(cap), 1)

\* validarRostro of face_service.py: Image.open, DeepFace.represent with the
\* detection enforced (no face is a ValueError); every HTTPException raised
\* inside its try is caught by its "except Exception"
validarRostro_face_service(contenido, cap) ==
    IF contenido = ""
    THEN ConRepresent(HTTPException(400, "No se envió contenido de imagen"), 0)
    ELSE IF contenido = "garbage"
    THEN ConRepresent(HTTPException(500, "Error procesando la imagen"), 0)
    ELSE IF cap.kind = "ValueError"
    THEN ConRepresent(HTTPException(400, "No se detectó ningún rostro"), 1)
    ELSE IF cap.kind = "list_dicts" /\ cap.embedding # <<>>
    THEN ConRepresent([ ok |-> TRUE, status |-> 200, detail |-> "",
                        embedding |-> cap.embedding ], 1)
    ELSE ConRepresent(HTTPException(500, "Error procesando la imagen"), 1)

\* what the Haar cascade of validarRostroRapido does with the decoded
\* picture: the number of faces it reports, or an exception
Detecciones == { "0", "1", "2", "Exception" }

\* Faulty variant of validarRostroRapido: the decoded picture is not
\* tested for None.
validarRostroRapido_sin_decodificar(contenido, det) ==
    IF contenido = ""
    THEN [ ok |-> FALSE, status |-> 400, detail |-> "Sin imagen", ret |-> FALSE ]
    ELSE IF contenido = "garbage" \/ det = "Exception"
    THEN [ ok |-> FALSE, status |-> 400, detail |-> "Error procesar imagen",
           ret |-> FALSE ]
    ELSE [ ok |-> TRUE, status |-> 200, detail |-> "", ret |-> det # "0" ]

\* validarRostroRapido(contenido): the HTTPException it raises or the bool
\* it returns
validarRostroRapido(contenido, det) ==
    IF contenido = ""
    THEN [ ok |-> FALSE, status |-> 400, detail |-> "Sin imagen", ret |-> FALSE ]
    ELSE IF contenido = "garbage"
    THEN [ ok |-> FALSE, status |-> 400, detail |-> "Imagen invalida", ret |-> FALSE ]
    ELSE IF det = "Exception"
    THEN [ ok |-> FALSE, status |-> 400, detail |-> "Error procesar imagen",
           ret |-> FALSE ]
    ELSE [ ok |-> TRUE, status |-> 200, detail |-> "", ret |-> det # "0" ]

(***************************************************************************)
(* Similarity matcher.  A snapshot is the list obtener_usuarios returned:  *)
(* a sequence of rows [id, nombre, apellido, email, embedding, imagen].    *)
(***************************************************************************)
\* the scan of validarRostroDuplicado from row i on: the row that raises
\* the 409, or id 0 when the loop ends, or id -1 when cosine raises its
\* ValueError, which the function does not catch
RECURSIVE DuplicadoDesde(_, _, _, _)
DuplicadoDesde(usuarios_, embedding, excluir_usuario_id, i) ==
    IF i > Len(usuarios_) THEN [ id |-> 0, distancia |-> inf ]
    ELSE LET usuario == usuarios_[i] IN
         IF excluir_usuario_id # 0 /\ usuario.id = excluir_usuario_id
         THEN DuplicadoDesde(usuarios_, embedding, excluir_usuario_id, i + 1)
         ELSE IF usuario.embedding = <<>>
         THEN DuplicadoDesde(usuarios_, embedding, excluir_usuario_id, i + 1)
         ELSE LET distancia == cosine(embedding, usuario.embedding) IN
              IF distancia = ValueError
              THEN [ id |-> -1, distancia |-> ValueError ]
              ELSE IF BajoUmbral(distancia)
              THEN [ id |-> usuario.id, distancia |-> distancia ]
              ELSE DuplicadoDesde(usuarios_, embedding, excluir_usuario_id, i + 1)

\* Faulty variants of validarRostroDuplicado, each with one slip the
\* properties below must tell from the code: the scan starts at the second
\* row; it stops before the last row; it keeps going and reports the last
\* row under the threshold; it ignores excluir_usuario_id.
validarRostroDuplicado_desde_segundo(usuarios_, embedding, excluir_usuario_id) ==
    DuplicadoDesde(usuarios_, embedding, excluir_usuario_id, 2)

validarRostroDuplicado_sin_ultimo(usuarios_, embedding, excluir_usuario_id) ==
    DuplicadoDesde(SubSeq(usuarios_, 1, Len(usuarios_) - 1), embedding,
                   excluir_usuario_id, 1)

validarRostroDuplicado_ultimo(usuarios_, embedding, excluir_usuario_id) ==
    DuplicadoDesde([ i \in 1..Len(usuarios_) |-> usuarios_[Len(usuarios_) + 1 - i] ],
                   embedding, excluir_usuario_id, 1)

validarRostroDuplicado_sin_excluir(usuarios_, embedding, excluir_usuario_id) ==
    DuplicadoDesde(usuarios_, embedding, 0, 1)

\* validarRostroDuplicado(db, embedding, excluir_usuario_id); None is 0
validarRostroDuplicado(usuarios_, embedding, excluir_usuario_id) ==
    DuplicadoDesde(usuarios_, embedding, excluir_usuario_id, 1)

\* Faulty variants of the loop of compararRostro: every row replaces the
\* running minimum; a row at the same distance replaces it (<= for <).
RECURSIVE MenorDesde_ultimo(_, _, _, _, _)
MenorDesde_ultimo(usuarios_, embedding_consulta, i, menor_distancia, usuario_reconocido) ==
    IF i > Len(usuarios_)
    THEN [ menor_distancia |-> menor_distancia,
           usuario_reconocido |-> usuario_reconocido ]
    ELSE MenorDesde_ultimo(usuarios_, embedding_consulta, i + 1,
                           cosine(embedding_consulta, usuarios_[i].embedding), i)

RECURSIVE MenorDesde_menor_igual(_, _, _, _, _)
MenorDesde_menor_igual(usuarios_, embedding_consulta, i, menor_distancia, usuario_reconocido) ==
    IF i > Len(usuarios_)
    THEN [ menor_distancia |-> menor_distancia,
           usuario_reconocido |-> usuario_reconocido ]
    ELSE LET distancia == cosine(embedding_consulta, usuarios_[i].embedding) IN
         IF ~DistLT(menor_distancia, distancia)
         THEN MenorDesde_menor_igual(usuarios_, embedding_consulta, i + 1, distancia, i)
         ELSE MenorDesde_menor_igual(usuarios_, embedding_consulta, i + 1,
                                     menor_distancia, usuario_reconocido)

\* the loop of compararRostro from row i on, with the running minimum and
\* the index of usuario_reconocido (0 is None); the ValueError of cosine
\* ends the loop and is handed on in the place of the minimum
RECURSIVE MenorDesde(_, _, _, _, _)
MenorDesde(usuarios_, embedding_consulta, i, menor_distancia, usuario_reconocido) ==
    IF i > Len(usuarios_)
    THEN [ menor_distancia |-> menor_distancia,
           usuario_reconocido |-> usuario_reconocido ]
    ELSE IF usuarios_[i].embedding = <<>>
    THEN MenorDesde(usuarios_, embedding_consulta, i + 1,
                    menor_distancia, usuario_reconocido)
    ELSE LET distancia == cosine(embedding_consulta, usuarios_[i].embedding) IN
         IF distancia = ValueError
         THEN [ menor_distancia |-> ValueError, usuario_reconocido |-> 0 ]
         ELSE IF DistLT(distancia, menor_distancia)
         THEN MenorDesde(usuarios_, embedding_consulta, i + 1, distancia, i)
         ELSE MenorDesde(usuarios_, embedding_consulta, i + 1,
                         menor_distancia, usuario_reconocido)

\* a returned value: the name and the distance it carries, each possibly
\* absent.  None (Python) is the value with both absent.
SinDistancia == [ num |-> 0, den2 |-> -1 ]
Retorno(nombre, distancia) == [ nombre |-> nombre, distancia |-> distancia ]
RetornoNone == Retorno(None, SinDistancia)

\* Faulty variants of compararRostro: the check for an empty list is
\* missing; the value returned for a face that is not recognised carries
\* the distance.
compararRostro_sin_vacio(usuarios_, contenido, cap) ==
    LET v == validarRostro(contenido, cap)
        m == MenorDesde(usuarios_, v.embedding, 1, inf, 0)
        id == IF m.usuario_reconocido = 0 THEN 0
              ELSE usuarios_[m.usuario_reconocido].id
    IN
    IF ~v.ok
    THEN [ raised |-> TRUE, status |-> v.status, detail |-> v.detail,
           ret |-> RetornoNone, usuario_reconocido |-> 0, menor_distancia |-> inf ]
    ELSE IF BajoUmbral(m.menor_distancia) /\ m.usuario_reconocido # 0
    THEN [ raised |-> FALSE, status |-> 200, detail |-> "Rostro reconocido",
           ret |-> Retorno(usuarios_[m.usuario_reconocido].nombre, SinDistancia),
           usuario_reconocido |-> id, menor_distancia |-> m.menor_distancia ]
    ELSE [ raised |-> FALSE, status |-> 200, detail |-> "Rostro no reconocido",
           ret |-> RetornoNone,
           usuario_reconocido |-> id, menor_distancia |-> m.menor_distancia ]

compararRostro_devuelve_distancia(usuarios_, contenido, cap) ==
    LET v == validarRostro(contenido, cap)
        m == MenorDesde(usuarios_, v.embedding, 1, inf, 0)
        id == IF m.usuario_reconocido = 0 THEN 0
              ELSE usuarios_[m.usuario_reconocido].id
    IN
    IF ~v.ok
    THEN [ raised |-> TRUE, status |-> v.status, detail |-> v.detail,
           ret |-> RetornoNone, usuario_reconocido |-> 0, menor_distancia |-> inf ]
    ELSE IF Len(usuarios_) = 0
    THEN [ raised |-> TRUE, status |-> 404, detail |-> "Sin usuarios",
           ret |-> RetornoNone, usuario_reconocido |-> 0, menor_distancia |-> inf ]
    ELSE IF BajoUmbral(m.menor_distancia) /\ m.usuario_reconocido # 0
    THEN [ raised |-> FALSE, status |-> 200, detail |-> "Rostro reconocido",
           ret |-> Retorno(usuarios_[m.usuario_reconocido].nombre, SinDistancia),
           usuario_reconocido |-> id, menor_distancia |-> m.menor_distancia ]
    ELSE [ raised |-> FALSE, status |-> 200, detail |-> "Rostro no reconocido",
           ret |-> Retorno(None, m.menor_distancia),
           usuario_reconocido |-> id, menor_distancia |-> m.menor_distancia ]

\* compararRostro(db, contenido) of service/usuario_service.py: the
\* HTTPException it raises or the value it returns (ret), with the local
\* variables of its last log line
compararRostro(usuarios_, contenido, cap) ==
    LET v == validarRostro(contenido, cap)
        raise(status, detail) ==
            [ raised |-> TRUE, status |-> status, detail |-> detail,
              ret |-> RetornoNone, usuario_reconocido |-> 0, menor_distancia |-> inf,
              represent |-> v.represent ]
    IN
    IF ~v.ok THEN raise(v.status, v.detail)
    ELSE IF Len(usuarios_) = 0 THEN raise(404, "Sin usuarios")
    ELSE LET m == MenorDesde(usuarios_, v.embedding, 1, inf, 0)
             id == IF m.usuario_reconocido = 0 THEN 0
                   ELSE usuarios_[m.usuario_reconocido].id
         IN
         IF m.menor_distancia = ValueError
         THEN raise(500, "Internal Server Error")
         ELSE IF BajoUmbral(m.menor_distancia) /\ m.usuario_reconocido # 0
         THEN [ raised |-> FALSE, status |-> 200, detail |-> "Rostro reconocido",
                ret |-> Retorno(usuarios_[m.usuario_reconocido].nombre, SinDistancia),
                usuario_reconocido |-> id, menor_distancia |-> m.menor_distancia,
                represent |-> v.represent ]
         ELSE [ raised |-> FALSE, status |-> 200, detail |-> "Rostro no reconocido",
                ret |-> RetornoNone,
                usuario_reconocido |-> id, menor_distancia |-> m.menor_distancia,
                represent |-> v.represent ]

\* UMBRAL_SIMILITUD = 0.40 of the earlier compararRostro, in hundredths
UMBRAL_SIMILITUD_040 == 40

BajoUmbral040(d) ==
    /\ d # inf
    /\ d.num > 0
    /\ 10000 * d.num * d.num
         > (100 - UMBRAL_SIMILITUD_040) * (100 - UMBRAL_SIMILITUD_040) * d.den2

\* compararRostro of face_service.py, the earlier revision main.py no longer
\* imports, from the embedding validarRostro gave it: it returns a dict with
\* the message and the distance
compararRostro_face_service(usuarios_, embedding_consulta) ==
    IF Len(usuarios_) = 0
    THEN [ raised |-> TRUE, status |-> 404, detail |-> "No hay usuarios registrados",
           ret |-> RetornoNone, usuario_reconocido |-> 0, menor_distancia |-> inf ]
    ELSE LET m == MenorDesde(usuarios_, embedding_consulta, 1, inf, 0)
             id == IF m.usuario_reconocido = 0 THEN 0
                   ELSE usuarios_[m.usuario_reconocido].id
         IN
         IF m.menor_distancia = ValueError
         THEN [ raised |-> TRUE, status |-> 500, detail |-> "Internal Server Error",
                ret |-> RetornoNone, usuario_reconocido |-> 0,
                menor_distancia |-> inf ]
         ELSE IF m.usuario_reconocido # 0 /\ BajoUmbral040(m.menor_distancia)
         THEN [ raised |-> FALSE, status |-> 200, detail |-> "Bienvenido",
                ret |-> Retorno(usuarios_[m.usuario_reconocido].nombre,
                                m.menor_distancia),
                usuario_reconocido |-> id, menor_distancia |-> m.menor_distancia ]
         ELSE [ raised |-> FALSE, status |-> 200, detail |-> "No tienes acceso",
                ret |-> Retorno(None, m.menor_distancia),
                usuario_reconocido |-> id, menor_distancia |-> m.menor_distancia ]

(***************************************************************************)
(* State.                                                                  *)
(***************************************************************************)
VARIABLES
    usuarios,        \* table usuarios: id -> row
    next_id,         \* AUTO_INCREMENT counter of usuarios.id
    imagenes,        \* files of the image volume (relative paths)
    tokens_validos,  \* token_service.tokens_validos
    resp,            \* the last response sent
    wk,              \* enrollment requests in flight in the worker processes
    llamada,         \* a call of the matcher on its own: arguments and result
    ws               \* the connection of websocket_validar_rostro

vars == << usuarios, next_id, imagenes, tokens_validos, resp, wk, llamada, ws >>

\* a path "usuarios/<uuid>.<ext>" is the number n standing for its uuid;
\* 0 is the null reference
SinImagen == 0

Workers == { "w1", "w2" }

WkIdle ==
    [ pc |-> "idle", nombre |-> "", apellido |-> "", email |-> "",
      embedding |-> <<>>, visto |-> {}, ruta |-> SinImagen, id |-> 0 ]

Respuesta(op, status, detail) ==
    [ op |-> op, status |-> status, detail |-> detail ]

\* no client has connected to /ws/validarRostro
SinConexion ==
    [ pc |-> "sin_conexion", conectado |-> FALSE,
      recibido |-> [ type |-> "", bytes |-> "", text |-> "" ],
      enviado |-> "", enviados |-> 0, detector |-> 0, content_type |-> "" ]

SinLlamada ==
    [ fn |-> "", usuarios |-> <<>>, contenido |-> "", cap |-> None,
      embedding |-> <<>>, excluir_usuario_id |-> 0, res |-> None ]

Init ==
    /\ usuarios = << >>
    /\ next_id = 1
    /\ imagenes = {}
    /\ tokens_validos = {}
    /\ resp = Respuesta("init", 0, "")
    /\ wk = [ w \in Workers |-> WkIdle ]
    /\ llamada = SinLlamada
    /\ ws = SinConexion

(***************************************************************************)
(* Repository and storage.                                                 *)
(***************************************************************************)
\* obtener_usuarios: db.query(Usuario).all() has no ORDER BY, so the rows
\* come in an order the database chooses
obtener_usuarios(us) ==
    LET ids == DOMAIN us
        n == Cardinality(ids)
    IN { [ i \in 1..n |-> us[f[i]] ] :
           f \in { g \in [ 1..n -> ids ] :
                     \A a, b \in 1..n : a # b => g[a] # g[b] } }

\* the unique index on usuarios.email (MySQL compares case-insensitively)
EmailEnUso(us, email, salvo_id) ==
    \E i \in DOMAIN us : i # salvo_id /\ lower(us[i].email) = lower(email)

\* crear_usuario: db.add + commit; IntegrityError on a duplicate email
crear_usuario(us, nid, usuario) ==
    IF EmailEnUso(us, usuario.email, 0)
    THEN [ ok |-> FALSE, usuarios |-> us, next_id |-> nid, id |-> 0 ]
    ELSE [ ok |-> TRUE,
           usuarios |-> [ i \in DOMAIN us \cup { nid } |->
                            IF i = nid THEN [ usuario EXCEPT !.id = nid ] ELSE us[i] ],
           next_id |-> nid + 1,
           id |-> nid ]

\* actualizar_usuario: setattr for each given field, then commit.
\* datos maps nombre, apellido, email to the new value or None.
actualizar_usuario(us, usuario_id, datos) ==
    IF usuario_id \notin DOMAIN us THEN [ found |-> FALSE, ok |-> TRUE, usuarios |-> us ]
    ELSE IF datos.email # None /\ EmailEnUso(us, datos.email, usuario_id)
    THEN [ found |-> TRUE, ok |-> FALSE, usuarios |-> us ]
    ELSE [ found |-> TRUE, ok |-> TRUE,
           usuarios |->
             [ us EXCEPT ![usuario_id] =
                 [ @ EXCEPT
                     !.nombre = IF datos.nombre # None THEN datos.nombre ELSE @,
                     !.apellido = IF datos.apellido # None THEN datos.apellido ELSE @,
                     !.email = IF datos.email # None THEN datos.email ELSE @ ] ] ]

\* eliminar_usuario: delete the row and commit
eliminar_usuario(us, usuario_id) ==
    [ i \in DOMAIN us \ { usuario_id } |-> us[i] ]

\* paths some row refers to
Referidas(us) == { us[i].imagen : i \in DOMAIN us } \ { SinImagen }

\* subir_imagen: write the bytes under a new uuid4 name.  The write fails
\* when the volume is full or the disk refuses it (disco_ok false).  A uuid4
\* name is new and otherwise arbitrary: the model takes the smallest number
\* that names no file and that no row other than the one being rewritten
\* (enuso) refers to.
subir_imagen(imgs, enuso, disco_ok) ==
    IF ~disco_ok \/ Cardinality(imgs) >= MaxImagenes
    THEN [ ok |-> FALSE, ruta |-> SinImagen, imagenes |-> imgs ]
    ELSE LET usados == imgs \cup enuso
             k == CHOOSE x \in 1..(Cardinality(usados) + 1) :
                    x \notin usados /\ \A y \in 1..(x - 1) : y \in usados
         IN [ ok |-> TRUE, ruta |-> k, imagenes |-> imgs \cup { k } ]

\* eliminar_imagen: remove the file when the path is set and exists.  When
\* os.remove raises (borra_ok false) the exception is swallowed and the
\* file stays; the callers do not look at the value returned.
eliminar_imagen(imgs, ruta_relativa, borra_ok) ==
    IF ruta_relativa = SinImagen \/ ~borra_ok THEN imgs
    ELSE imgs \ { ruta_relativa }


(***************************************************************************)
(* crearUsuario (service/usuario_service.py).                              *)
(***************************************************************************)
\* the field checks at the head of crearUsuario: the detail of the 400 it
\* raises, or "" when every field passes
campos_invalidos(nombre, apellido, email, embedding) ==
    IF nombre = "" \/ strip(nombre) = "" THEN "Nombre vacio"
    ELSE IF apellido = "" \/ strip(apellido) = "" THEN "Apellido vacio"
    ELSE IF muy_largo(nombre) \/ muy_largo(apellido) THEN "Nombre muy largo"
    ELSE IF email = "" \/ strip(email) = "" THEN "Email vacio"
    ELSE IF ~patron_email(email) THEN "Email invalido"
    ELSE IF embedding = <<>> THEN "Embedding invalido"
    ELSE ""

nuevo_usuario(nombre, apellido, email, embedding, ruta_imagen) ==
    [ id |-> 0, nombre |-> strip(nombre), apellido |-> strip(apellido),
      email |-> lower(strip(email)), embedding |-> embedding, imagen |-> ruta_imagen ]

\* Faulty variant of crearUsuario: the picture is written before the
\* duplicate check.
crearUsuario_sube_antes(us, nid, imgs, nombre, apellido, email, embedding, snap, disco_ok) ==
    LET falla(status, detail, imgs2) ==
            [ usuarios |-> us, next_id |-> nid, imagenes |-> imgs2,
              resp |-> Respuesta("subirUsuario", status, detail) ]
        mal == campos_invalidos(nombre, apellido, email, embedding)
        dup == validarRostroDuplicado(snap, embedding, 0)
        sub == subir_imagen(imgs, Referidas(us), disco_ok)
        cre == crear_usuario(us, nid,
                             nuevo_usuario(nombre, apellido, email, embedding, sub.ruta))
    IN IF mal # ""
       THEN falla(400, mal, imgs)
       ELSE IF ~sub.ok THEN falla(400, "Error subir", imgs)
       ELSE IF dup.id < 0 THEN falla(500, "Internal Server Error", sub.imagenes)
       ELSE IF dup.id # 0 THEN falla(409, "Rostro duplicado", sub.imagenes)
       ELSE IF ~cre.ok THEN falla(409, "Email duplicado", sub.imagenes)
       ELSE [ usuarios |-> cre.usuarios, next_id |-> cre.next_id,
              imagenes |-> sub.imagenes,
              resp |-> Respuesta("subirUsuario", 200, "creado") ]

\* crearUsuario on the store (us, nid, imgs): the store it leaves and the
\* response; the ValueError of validarRostroDuplicado leaves crearUsuario
\* and subir_usuario uncaught and is answered with the 500 of the server.  snap is the list obtener_usuarios returns to the duplicate
\* check, disco_ok whether the volume accepts the write.
crearUsuario(us, nid, imgs, nombre, apellido, email, embedding, snap, disco_ok) ==
    LET falla(status, detail, imgs2) ==
            [ usuarios |-> us, next_id |-> nid, imagenes |-> imgs2,
              resp |-> Respuesta("subirUsuario", status, detail) ]
        mal == campos_invalidos(nombre, apellido, email, embedding)
        dup == validarRostroDuplicado(snap, embedding, 0)
        sub == subir_imagen(imgs, Referidas(us), disco_ok)
        cre == crear_usuario(us, nid,
                             nuevo_usuario(nombre, apellido, email, embedding, sub.ruta))
    IN IF mal # ""
       THEN falla(400, mal, imgs)
       ELSE IF dup.id < 0 THEN falla(500, "Internal Server Error", imgs)
       ELSE IF dup.id # 0 THEN falla(409, "Rostro duplicado", imgs)
       ELSE IF ~sub.ok THEN falla(400, "Error subir", imgs)
       ELSE IF ~cre.ok THEN falla(409, "Email duplicado", sub.imagenes)
       ELSE [ usuarios |-> cre.usuarios, next_id |-> cre.next_id,
              imagenes |-> sub.imagenes,
              resp |-> Respuesta("subirUsuario", 200, "creado") ]

(***************************************************************************)
(* HTTP handlers (main.py), one request at a time.  A handler draws an     *)
(* input only where its code reads it.                                     *)
(***************************************************************************)
TiposPermitidos == { "image/jpeg", "image/png" }

\* the Authorization header of a request: none, the token the model issues,
\* a token that was never issued, the token without "Bearer ", "Bearer "
\* with nothing after it
AuthHeaders == { None, "Bearer 100000", "Bearer 999999", "100000", "Bearer " }

\* auth_header.startswith("Bearer ")
startswith_Bearer(auth_header) ==
    auth_header \in { "Bearer 100000", "Bearer 999999", "Bearer " }

\* auth_header.split(" ")[1]
split_1(auth_header) ==
    CASE auth_header = "Bearer 100000" -> "100000"
      [] auth_header = "Bearer 999999" -> "999999"
      [] OTHER                         -> ""

endpoints_publicos == { "/subirUsuario", "/login", "/docs", "/openapi.json", "/compararCara" }

\* Faulty variant of AuthMiddleware: any Bearer header passes.
AuthMiddleware_sin_token(path, auth_header, tokens) ==
    IF path \in endpoints_publicos THEN "pasa"
    ELSE IF auth_header = None \/ ~startswith_Bearer(auth_header) THEN "Sin auth"
    ELSE "pasa"

\* AuthMiddleware.__call__ on an http scope: "pasa" when the request is
\* handed to the application, else the detail of the 401
AuthMiddleware(path, auth_header, tokens) ==
    IF path \in endpoints_publicos THEN "pasa"
    ELSE IF auth_header = None \/ ~startswith_Bearer(auth_header) THEN "Sin auth"
    ELSE IF split_1(auth_header) \notin tokens THEN "Token invalido"
    ELSE "pasa"

\* auth_required: HTTPBearer takes what follows "Bearer " and validar_token
\* looks it up
auth_required(auth_header, tokens) ==
    auth_header # None /\ startswith_Bearer(auth_header)
    /\ split_1(auth_header) \in tokens

\* some request to path gets to the handler; con_auth_required tells
\* whether the route depends on auth_required
Llega(path, con_auth_required) ==
    \E auth_header \in AuthHeaders :
      /\ AuthMiddleware(path, auth_header, tokens_validos) = "pasa"
      /\ con_auth_required => auth_required(auth_header, tokens_validos)

PathsProtegidos == { "/usuarios/1", "/generarToken", "/ws/validarRostro" }

\* what DeepFace does is only asked of a decodable picture
CapsDe(contenido) ==
    IF contenido = "foto" THEN CapOutcomes
    ELSE { [ kind |-> "None", embedding |-> <<>> ] }

SoloResponde(r) ==
    /\ resp' = r
    /\ UNCHANGED << usuarios, next_id, imagenes, tokens_validos, wk, llamada, ws >>

\* POST /subirUsuario
SubirUsuario ==
    \/ /\ \E content_type \in ContentTypes : content_type \notin TiposPermitidos
       /\ SoloResponde(Respuesta("subirUsuario", 400, "Archivo invalido"))
    \/ /\ \E content_type \in ContentTypes : content_type \in TiposPermitidos
       /\ \E contenido \in Contenidos : \E cap \in CapsDe(contenido) :
          LET v == validarRostro(contenido, cap)
              Aplica(r) ==
                  /\ r.next_id <= MaxId + 1
                  /\ usuarios' = r.usuarios
                  /\ next_id' = r.next_id
                  /\ imagenes' = r.imagenes
                  /\ resp' = r.resp
                  /\ UNCHANGED << tokens_validos, wk, llamada, ws >>
          IN IF ~v.ok
             THEN SoloResponde(Respuesta("subirUsuario", v.status, v.detail))
             ELSE \E nombre \in NombresIn, apellido \in ApellidosIn, email \in EmailsIn :
               LET crear(snap, disco_ok) ==
                     crearUsuario(usuarios, next_id, imagenes, nombre, apellido, email,
                                  v.embedding, snap, disco_ok)
               IN IF campos_invalidos(nombre, apellido, email, v.embedding) # ""
                  THEN Aplica(crear(<<>>, TRUE))
                  ELSE \E snap \in obtener_usuarios(usuarios) :
                    IF validarRostroDuplicado(snap, v.embedding, 0).id # 0
                    THEN Aplica(crear(snap, TRUE))
                    ELSE \E disco_ok \in BOOLEAN : Aplica(crear(snap, disco_ok))

\* values an optional form field of PUT /usuarios/{id} takes: left out, a
\* blank name, an address
NombresUpd == { None, " " }
ApellidosUpd == { None }
EmailsUpd == { None, "a@x.io" }

\* the image part of update_usuario, after actualizar_usuario has committed
\* us1: validarRostro, validarRostroDuplicado, eliminar_imagen, subir_imagen,
\* then the commit of imagen and embedding; an exception that is no
\* HTTPException is caught and answered with the 400 "Error imagen"
update_usuario_imagen(us1, imgs, usuario_id, contenido, cap, snap, disco_ok, borra_ok) ==
    LET base == Respuesta("updateUsuario", 200, "actualizado")
        v == validarRostro(contenido, cap)
        dup == validarRostroDuplicado(snap, v.embedding, usuario_id)
        imgs1 == eliminar_imagen(imgs, us1[usuario_id].imagen, borra_ok)
        sub == subir_imagen(imgs1, Referidas(eliminar_usuario(us1, usuario_id)), disco_ok)
    IN IF ~v.ok
       THEN [ usuarios |-> us1, imagenes |-> imgs,
              resp |-> [ base EXCEPT !.status = v.status, !.detail = v.detail ] ]
       ELSE IF dup.id < 0
       THEN [ usuarios |-> us1, imagenes |-> imgs,
              resp |-> [ base EXCEPT !.status = 400, !.detail = "Error imagen" ] ]
       ELSE IF dup.id # 0
       THEN [ usuarios |-> us1, imagenes |-> imgs,
              resp |-> [ base EXCEPT !.status = 409, !.detail = "Rostro duplicado" ] ]
       ELSE IF ~sub.ok
       THEN [ usuarios |-> us1, imagenes |-> imgs1,
              resp |-> [ base EXCEPT !.status = 500, !.detail = "Error guardar" ] ]
       ELSE [ usuarios |-> [ us1 EXCEPT ![usuario_id].imagen = sub.ruta,
                                        ![usuario_id].embedding = v.embedding ],
              imagenes |-> sub.imagenes,
              resp |-> base ]

\* PUT /usuarios/{usuario_id}, the bearer token accepted
UpdateUsuario ==
    /\ Llega("/usuarios/1", TRUE)
    /\ \E usuario_id \in 1..MaxId :
       LET R(status, detail) == Respuesta("updateUsuario", status, detail)
       IN
       \/ /\ \E content_type \in ContentTypes : content_type \notin TiposPermitidos
          /\ SoloResponde(R(400, "Tipo de archivo no permitido"))
       \/ \E nombre \in NombresUpd, apellido \in ApellidosUpd, email \in EmailsUpd :
          LET datos == [ nombre |-> nombre, apellido |-> apellido, email |-> email ]
              act == actualizar_usuario(usuarios, usuario_id, datos)
              Aplica(r) ==
                  /\ usuarios' = r.usuarios
                  /\ imagenes' = r.imagenes
                  /\ resp' = r.resp
                  /\ UNCHANGED << next_id, tokens_validos, wk, llamada, ws >>
          IN IF ~act.found THEN SoloResponde(R(404, "No encontrado"))
             ELSE IF ~act.ok THEN SoloResponde(R(500, "IntegrityError"))
             ELSE
             \/ Aplica([ usuarios |-> act.usuarios, imagenes |-> imagenes,
                         resp |-> R(200, "actualizado") ])
             \/ /\ \E content_type \in ContentTypes : content_type \in TiposPermitidos
                /\ \E contenido \in Contenidos : \E cap \in CapsDe(contenido) :
                   LET con(snap, disco_ok, borra_ok) ==
                         update_usuario_imagen(act.usuarios, imagenes, usuario_id,
                                               contenido, cap, snap, disco_ok,
                                               borra_ok)
                       v == validarRostro(contenido, cap)
                   IN IF ~v.ok THEN Aplica(con(<<>>, TRUE, TRUE))
                      ELSE \E snap \in obtener_usuarios(act.usuarios) :
                        IF validarRostroDuplicado(snap, v.embedding, usuario_id).id # 0
                        THEN Aplica(con(snap, TRUE, TRUE))
                        ELSE \E disco_ok \in BOOLEAN :
                             \E borra_ok \in IF act.usuarios[usuario_id].imagen = SinImagen
                                             THEN { TRUE } ELSE BOOLEAN :
                               Aplica(con(snap, disco_ok, borra_ok))

\* DELETE /usuarios/{usuario_id}, the bearer token accepted
DeleteUsuario ==
    /\ Llega("/usuarios/1", TRUE)
    /\ \E usuario_id \in 1..MaxId :
       IF usuario_id \notin DOMAIN usuarios
       THEN SoloResponde(Respuesta("deleteUsuario", 404, "No encontrado"))
       ELSE /\ \E borra_ok \in IF usuarios[usuario_id].imagen = SinImagen
                                 THEN { TRUE } ELSE BOOLEAN :
                 imagenes' = eliminar_imagen(imagenes, usuarios[usuario_id].imagen,
                                             borra_ok)
            /\ usuarios' = eliminar_usuario(usuarios, usuario_id)
            /\ resp' = Respuesta("deleteUsuario", 200, "Eliminado")
            /\ UNCHANGED << next_id, tokens_validos, wk, llamada, ws >>

\* generar_token: a random six-digit token joins tokens_validos
generar_token(tokens, token) == tokens \cup { token }

\* Faulty variant of comparar_cara: the token is generated before the name
\* is tested.
comparar_cara_token_antes(tokens, snap, content_type, contenido, cap, token) ==
    LET R(status, detail, tks) ==
            [ resp |-> Respuesta("compararCara", status, detail), tokens_validos |-> tks ]
        c == compararRostro(snap, contenido, cap)
    IN
    IF content_type \notin TiposPermitidos THEN R(400, "Archivo invalido", tokens)
    ELSE IF c.raised THEN R(c.status, c.detail, tokens)
    ELSE IF c.ret.nombre # None /\ c.ret.nombre # ""
    THEN R(200, c.detail, generar_token(tokens, token))
    ELSE R(401, "No reconocido", generar_token(tokens, token))

\* comparar_cara of main.py on the rows snap: the response and the set
\* tokens_validos it leaves; token is what random.randint draws
comparar_cara(tokens, snap, content_type, contenido, cap, token) ==
    LET R(status, detail, tks) ==
            [ resp |-> Respuesta("compararCara", status, detail), tokens_validos |-> tks ]
        c == compararRostro(snap, contenido, cap)
    IN
    IF content_type \notin TiposPermitidos THEN R(400, "Archivo invalido", tokens)
    ELSE IF c.raised THEN R(c.status, c.detail, tokens)
    ELSE IF c.ret.nombre # None /\ c.ret.nombre # ""
    THEN R(200, c.detail, generar_token(tokens, token))
    ELSE R(401, "No reconocido", tokens)

\* POST /compararCara
CompararCara ==
    \E content_type \in ContentTypes, contenido \in Contenidos, token \in Tokens :
    \E cap \in CapsDe(contenido), snap \in obtener_usuarios(usuarios) :
      LET r == comparar_cara(tokens_validos, snap, content_type, contenido, cap, token) IN
      /\ resp' = r.resp
      /\ tokens_validos' = r.tokens_validos
      /\ UNCHANGED << usuarios, next_id, imagenes, wk, llamada, ws >>

\* POST /ws/validarRostro: the route has no auth_required, and its path is
\* not in endpoints_publicos
ValidarRostroRapidoEndpoint ==
    /\ Llega("/ws/validarRostro", FALSE)
    /\ LET R(status, detail) == Respuesta("validarRostroRapido", status, detail) IN
       \/ /\ \E content_type \in ContentTypes : content_type \notin TiposPermitidos
          /\ SoloResponde(R(400, "Archivo invalido. Solo JPEG o PNG"))
       \/ /\ \E content_type \in ContentTypes : content_type \in TiposPermitidos
          /\ \E contenido \in Contenidos, det \in Detecciones :
               LET r == validarRostroRapido(contenido, det) IN
               IF ~r.ok THEN SoloResponde(R(r.status, r.detail))
               ELSE IF r.ret THEN SoloResponde(R(200, "Rostro detectado correctamente"))
               ELSE SoloResponde(R(200, "No se detectó ningún rostro en la imagen"))

\* GET /generarToken: the route has no auth_required, and its path is not
\* in endpoints_publicos
GenerarTokenPrueba ==
    /\ Llega("/generarToken", FALSE)
    /\ \E token \in Tokens :
         /\ tokens_validos' = generar_token(tokens_validos, token)
         /\ resp' = Respuesta("generarToken", 200, "token")
         /\ UNCHANGED << usuarios, next_id, imagenes, wk, llamada, ws >>

\* AuthMiddleware turns away a request to a protected path whose header is
\* missing or carries a token that is not in tokens_validos
RechazaAuth ==
    \E path \in PathsProtegidos, auth_header \in AuthHeaders :
      LET a == AuthMiddleware(path, auth_header, tokens_validos) IN
      /\ a # "pasa"
      /\ SoloResponde(Respuesta("AuthMiddleware", 401, a))

Next ==
    \/ SubirUsuario
    \/ UpdateUsuario
    \/ DeleteUsuario
    \/ CompararCara
    \/ ValidarRostroRapidoEndpoint
    \/ GenerarTokenPrueba
    \/ RechazaAuth

Spec == Init /\ [][Next]_vars

(***************************************************************************)
(* The handlers beside a deployment of the earlier revision on the same    *)
(* database: face_service.py computes its embeddings with Facenet,         *)
(* service/usuario_service.py with Facenet512, so the rows the two commit  *)
(* differ in length.  The other deployment scans a snapshot it read before *)
(* the rows of this one were committed.                                    *)
(***************************************************************************)
EmbeddingsFacenet == { <<1, 0, 0>> }

OtroDespliegueCrea ==
    /\ next_id <= MaxId
    /\ ~EmailEnUso(usuarios, "c@x.io", 0)
    /\ \E embedding \in EmbeddingsFacenet :
         usuarios' = crear_usuario(usuarios, next_id,
                                   nuevo_usuario("Lia", "Paz", "c@x.io", embedding,
                                                 SinImagen)).usuarios
    /\ next_id' = next_id + 1
    /\ UNCHANGED << imagenes, tokens_validos, resp, wk, llamada, ws >>

NextDim ==
    \/ Next
    \/ OtroDespliegueCrea

SpecDim == Init /\ [][NextDim]_vars

(***************************************************************************)
(* The matcher called on its own: one call of validarRostroDuplicado or    *)
(* of compararRostro on a list of rows, with its arguments and its result  *)
(* kept in llamada.                                                        *)
(***************************************************************************)
\* longest list of rows a call is given
MaxSnap == 3

\* usuarios.nombre of the row with this id
NombreFila(id) ==
    CASE id = 1 -> "Bo"
      [] id = 2 -> "Ana"
      [] OTHER  -> "Lia"

Fila(id, embedding) ==
    [ id |-> id, nombre |-> NombreFila(id), apellido |-> "Paz", email |-> "a@x.io",
      embedding |-> embedding, imagen |-> SinImagen ]

\* the lists obtener_usuarios can return: rows with distinct ids in any
\* order, each with an embedding (usuarios.embedding is NOT NULL and every
\* writer stores a non-empty one)
Snapshots ==
    UNION { { [ i \in 1..n |-> Fila(f[i], e[i]) ] :
                f \in { g \in [ 1..n -> 1..MaxSnap ] :
                          \A a, b \in 1..n : a # b => g[a] # g[b] },
                e \in [ 1..n -> Embeddings ] } : n \in 0..MaxSnap }

\* what DeepFace does with the picture of a call of compararRostro
CapsLlamada(contenido) ==
    IF contenido = "foto"
    THEN { [ kind |-> "list_dicts", embedding |-> e ] : e \in Embeddings }
         \cup { [ kind |-> "None", embedding |-> <<>> ] }
    ELSE { [ kind |-> "None", embedding |-> <<>> ] }

\* one call in a behaviour
SinLlamar == llamada.fn = ""

SoloLlama(l) ==
    /\ llamada' = l
    /\ UNCHANGED << usuarios, next_id, imagenes, tokens_validos, resp, wk, ws >>

\* validarRostroDuplicado(db, embedding, excluir_usuario_id)
Llama_validarRostroDuplicado ==
    /\ SinLlamar
    /\ \E snap \in Snapshots, embedding \in Embeddings, excluir_usuario_id \in 0..MaxSnap :
      SoloLlama([ fn |-> "validarRostroDuplicado", usuarios |-> snap,
                  contenido |-> "", cap |-> None, embedding |-> embedding,
                  excluir_usuario_id |-> excluir_usuario_id,
                  res |-> validarRostroDuplicado(snap, embedding, excluir_usuario_id) ])

\* compararRostro(db, contenido) of service/usuario_service.py
Llama_compararRostro ==
    /\ SinLlamar
    /\ \E snap \in Snapshots, contenido \in Contenidos :
      \E cap \in CapsLlamada(contenido) :
      SoloLlama([ fn |-> "compararRostro", usuarios |-> snap,
                  contenido |-> contenido, cap |-> cap,
                  embedding |-> validarRostro(contenido, cap).embedding,
                  excluir_usuario_id |-> 0,
                  res |-> compararRostro(snap, contenido, cap) ])

\* compararRostro of face_service.py, after its validarRostro
Llama_compararRostro_face_service ==
    /\ SinLlamar
    /\ \E snap \in Snapshots, embedding \in Embeddings :
      SoloLlama([ fn |-> "compararRostro_face_service", usuarios |-> snap,
                  contenido |-> "foto", cap |-> None, embedding |-> embedding,
                  excluir_usuario_id |-> 0,
                  res |-> compararRostro_face_service(snap, embedding) ])

\* validarRostro(contenido) of service/usuario_service.py; det is what the
\* cascade of validarRostroRapido would report on the same bytes
Llama_validarRostro ==
    /\ SinLlamar
    /\ \E contenido \in Contenidos, cap \in CapsTodas, det \in Detecciones :
         SoloLlama([ fn |-> "validarRostro", usuarios |-> <<>>,
                     contenido |-> contenido, cap |-> cap, det |-> det,
                     embedding |-> <<>>, excluir_usuario_id |-> 0,
                     res |-> validarRostro(contenido, cap) ])

\* validarRostro(contenido) of face_service.py
Llama_validarRostro_face_service ==
    /\ SinLlamar
    /\ \E contenido \in Contenidos, cap \in CapsTodas :
         SoloLlama([ fn |-> "validarRostro_face_service", usuarios |-> <<>>,
                     contenido |-> contenido, cap |-> cap, det |-> "0",
                     embedding |-> <<>>, excluir_usuario_id |-> 0,
                     res |-> validarRostro_face_service(contenido, cap) ])

\* validarRostroRapido(contenido); cap is what DeepFace.represent would do
\* with the same bytes
Llama_validarRostroRapido ==
    /\ SinLlamar
    /\ \E contenido \in Contenidos, cap \in CapsTodas, det \in Detecciones :
         SoloLlama([ fn |-> "validarRostroRapido", usuarios |-> <<>>,
                     contenido |-> contenido, cap |-> cap, det |-> det,
                     embedding |-> <<>>, excluir_usuario_id |-> 0,
                     res |-> validarRostroRapido(contenido, det) ])

\* compararRostro on the store of two orthogonal unit embeddings, in either
\* order of the rows, with a query close to the first and a query
\* orthogonal to both.  The query (0.99, 0.14, 0) is written in hundredths:
\* the cosine distance does not change when a vector is scaled.
EnroladosEscenario ==
    { << Fila(1, <<1, 0, 0>>), Fila(2, <<0, 1, 0>>) >>,
      << Fila(2, <<0, 1, 0>>), Fila(1, <<1, 0, 0>>) >> }

ConsultasEscenario == { <<99, 14, 0>>, <<0, 0, 1>> }

Llama_compararRostro_escenario ==
    /\ SinLlamar
    /\ \E snap \in EnroladosEscenario, embedding \in ConsultasEscenario :
         LET cap == [ kind |-> "list_dicts", embedding |-> embedding ] IN
         SoloLlama([ fn |-> "compararRostro", usuarios |-> snap,
                     contenido |-> "foto", cap |-> cap,
                     embedding |-> validarRostro("foto", cap).embedding,
                     excluir_usuario_id |-> 0,
                     res |-> compararRostro(snap, "foto", cap) ])

\* POST /compararCara on a database that holds the rows snap
Llama_comparar_cara ==
    /\ SinLlamar
    /\ \E snap \in Snapshots, content_type \in ContentTypes,
          contenido \in Contenidos, token \in Tokens :
      \E cap \in CapsLlamada(contenido) :
        LET r == comparar_cara(tokens_validos, snap, content_type, contenido, cap, token) IN
        /\ llamada' = [ fn |-> "comparar_cara", usuarios |-> snap,
                        contenido |-> contenido, cap |-> cap,
                        embedding |-> validarRostro(contenido, cap).embedding,
                        excluir_usuario_id |-> 0,
                        res |-> [ content_type |-> content_type, token |-> token ] ]
        /\ resp' = r.resp
        /\ tokens_validos' = r.tokens_validos
        /\ UNCHANGED << usuarios, next_id, imagenes, wk, ws >>

NextMatcher ==
    \/ Llama_comparar_cara
    \/ Llama_compararRostro_escenario
    \/ Llama_validarRostroDuplicado
    \/ Llama_compararRostro
    \/ Llama_compararRostro_face_service
    \/ Llama_validarRostro
    \/ Llama_validarRostro_face_service
    \/ Llama_validarRostroRapido

SpecMatcher == Init /\ [][NextMatcher]_vars

(***************************************************************************)
(* Calls of validarRostroDuplicado and compararRostro, one after another,  *)
(* in a process started on a database that holds two rows and a volume     *)
(* that holds their pictures.  llamada keeps the last call; its field      *)
(* primera keeps the arguments and the result of the first call of the     *)
(* behaviour, and otras tells whether a call with other arguments was made *)
(* since.                                                                  *)
(***************************************************************************)
InitAlmacen ==
    /\ usuarios = [ i \in { 1, 2 } |->
                      [ id |-> i, nombre |-> NombreFila(i), apellido |-> "Paz",
                        email |-> IF i = 1 THEN "a@x.io" ELSE "b@x.io",
                        embedding |-> IF i = 1 THEN <<1, 0>> ELSE <<0, 1>>,
                        imagen |-> i ] ]
    /\ next_id = 3
    /\ imagenes = { 1, 2 }
    /\ tokens_validos = {}
    /\ resp = Respuesta("init", 0, "")
    /\ wk = [ w \in Workers |-> WkIdle ]
    /\ llamada = SinLlamada
    /\ ws = SinConexion

Args(l) ==
    << l.fn, l.usuarios, l.contenido, l.cap, l.embedding, l.excluir_usuario_id >>

ConPrimera(l) ==
    [ fn |-> l.fn, usuarios |-> l.usuarios, contenido |-> l.contenido,
      cap |-> l.cap, embedding |-> l.embedding,
      excluir_usuario_id |-> l.excluir_usuario_id, res |-> l.res,
      primera |-> IF SinLlamar THEN [ args |-> Args(l), res |-> l.res ]
                  ELSE llamada.primera,
      otras |-> IF SinLlamar THEN FALSE
                ELSE llamada.otras \/ Args(l) # llamada.primera.args ]

\* Faulty variant of the call of validarRostroDuplicado: the module keeps
\* the last duplicate it found and reports it again.
Llama_validarRostroDuplicado_con_memoria ==
    \E snap \in obtener_usuarios(usuarios), embedding \in EmbeddingsFoto :
      \E excluir_usuario_id \in { 0 } \cup DOMAIN usuarios :
      SoloLlama(ConPrimera(
          [ fn |-> "validarRostroDuplicado", usuarios |-> snap,
            contenido |-> "", cap |-> [ kind |-> "None", embedding |-> <<>> ],
            embedding |-> embedding,
            excluir_usuario_id |-> excluir_usuario_id,
            res |-> IF ~SinLlamar /\ llamada.fn = "validarRostroDuplicado"
                       /\ llamada.res.id > 0
                    THEN llamada.res
                    ELSE validarRostroDuplicado(snap, embedding, excluir_usuario_id) ]))

\* validarRostroDuplicado(db, embedding, excluir_usuario_id) on the database
Llama_validarRostroDuplicado_almacen ==
    \E snap \in obtener_usuarios(usuarios), embedding \in EmbeddingsFoto :
      \E excluir_usuario_id \in { 0 } \cup DOMAIN usuarios :
      SoloLlama(ConPrimera(
          [ fn |-> "validarRostroDuplicado", usuarios |-> snap,
            contenido |-> "", cap |-> [ kind |-> "None", embedding |-> <<>> ],
            embedding |-> embedding,
            excluir_usuario_id |-> excluir_usuario_id,
            res |-> validarRostroDuplicado(snap, embedding, excluir_usuario_id) ]))

\* compararRostro(db, contenido) on the database
Llama_compararRostro_almacen ==
    \E snap \in obtener_usuarios(usuarios), contenido \in Contenidos :
      \E cap \in CapsLlamada(contenido) :
      SoloLlama(ConPrimera(
          [ fn |-> "compararRostro", usuarios |-> snap,
            contenido |-> contenido, cap |-> cap,
            embedding |-> validarRostro(contenido, cap).embedding,
            excluir_usuario_id |-> 0,
            res |-> compararRostro(snap, contenido, cap) ]))

NextAlmacen ==
    \/ Llama_validarRostroDuplicado_almacen
    \/ Llama_compararRostro_almacen

SpecAlmacen == InitAlmacen /\ [][NextAlmacen]_vars

(***************************************************************************)
(* POST /subirUsuario served by two worker processes on one database and   *)
(* one image volume.  A request runs without interruption up to the SELECT *)
(* of obtener_usuarios; the write of the picture and the INSERT are steps  *)
(* of their own, and the other process can run between them.  visto keeps  *)
(* the ids of the rows the duplicate check read.                           *)
(***************************************************************************)
\* subir_usuario and crearUsuario up to validarRostroDuplicado
Wk_validar(w) ==
    /\ wk[w].pc = "idle"
    /\ \/ /\ \E content_type \in ContentTypes : content_type \notin TiposPermitidos
          /\ SoloResponde(Respuesta("subirUsuario", 400, "Archivo invalido"))
       \/ /\ \E content_type \in ContentTypes : content_type \in TiposPermitidos
          /\ \E contenido \in Contenidos : \E cap \in CapsDe(contenido) :
             LET v == validarRostro(contenido, cap) IN
             IF ~v.ok
             THEN SoloResponde(Respuesta("subirUsuario", v.status, v.detail))
             ELSE \E nombre \in NombresIn, apellido \in ApellidosIn, email \in EmailsIn :
               LET mal == campos_invalidos(nombre, apellido, email, v.embedding) IN
               IF mal # ""
               THEN SoloResponde(Respuesta("subirUsuario", 400, mal))
               ELSE \E snap \in obtener_usuarios(usuarios) :
                 IF validarRostroDuplicado(snap, v.embedding, 0).id < 0
                 THEN SoloResponde(Respuesta("subirUsuario", 500,
                                             "Internal Server Error"))
                 ELSE IF validarRostroDuplicado(snap, v.embedding, 0).id # 0
                 THEN SoloResponde(Respuesta("subirUsuario", 409, "Rostro duplicado"))
                 ELSE /\ wk' = [ wk EXCEPT ![w] =
                                   [ pc |-> "subir", nombre |-> nombre,
                                     apellido |-> apellido, email |-> email,
                                     embedding |-> v.embedding,
                                     visto |-> { snap[i].id : i \in 1..Len(snap) },
                                     ruta |-> SinImagen, id |-> 0 ] ]
                      /\ UNCHANGED << usuarios, next_id, imagenes, tokens_validos,
                                      resp, llamada, ws >>

\* crearUsuario: subir_imagen
Wk_subir(w) ==
    /\ wk[w].pc = "subir"
    /\ \E disco_ok \in BOOLEAN :
         LET sub == subir_imagen(imagenes, Referidas(usuarios), disco_ok) IN
         IF ~sub.ok
         THEN /\ wk' = [ wk EXCEPT ![w] = WkIdle ]
              /\ resp' = Respuesta("subirUsuario", 400, "Error subir")
              /\ UNCHANGED << usuarios, next_id, imagenes, tokens_validos, llamada, ws >>
         ELSE /\ wk' = [ wk EXCEPT ![w].pc = "crear", ![w].ruta = sub.ruta ]
              /\ imagenes' = sub.imagenes
              /\ UNCHANGED << usuarios, next_id, tokens_validos, resp, llamada, ws >>

\* crearUsuario: crear_usuario, and the response of subir_usuario
Wk_crear(w) ==
    /\ wk[w].pc = "crear"
    /\ LET u == wk[w]
           cre == crear_usuario(usuarios, next_id,
                                nuevo_usuario(u.nombre, u.apellido, u.email,
                                              u.embedding, u.ruta))
       IN IF ~cre.ok
          THEN /\ wk' = [ wk EXCEPT ![w] = WkIdle ]
               /\ resp' = Respuesta("subirUsuario", 409, "Email duplicado")
               /\ UNCHANGED << usuarios, next_id, imagenes, tokens_validos, llamada, ws >>
          ELSE /\ wk' = [ wk EXCEPT ![w].pc = "fin", ![w].id = cre.id ]
               /\ usuarios' = cre.usuarios
               /\ next_id' = cre.next_id
               /\ resp' = Respuesta("subirUsuario", 200, "creado")
               /\ UNCHANGED << imagenes, tokens_validos, llamada, ws >>

NextConc ==
    \E w \in Workers :
      \/ Wk_validar(w)
      \/ Wk_subir(w)
      \/ Wk_crear(w)

SpecConc == Init /\ [][NextConc]_vars

(***************************************************************************)
(* The loops of validarRostroDuplicado and compararRostro row by row,      *)
(* while other requests commit to the table.  llamada holds the running    *)
(* call: the list obtener_usuarios returned (usuarios), the row the loop   *)
(* is at (i) and the local variables of compararRostro.                    *)
(***************************************************************************)
EmbeddingsScan == { <<1, 0>>, <<0, 1>> }

InitScan ==
    /\ usuarios = [ i \in { 1 } |->
                      [ id |-> 1, nombre |-> NombreFila(1), apellido |-> "Paz",
                        email |-> "a@x.io", embedding |-> <<1, 0>>, imagen |-> 1 ] ]
    /\ next_id = 2
    /\ imagenes = { 1 }
    /\ tokens_validos = {}
    /\ resp = Respuesta("init", 0, "")
    /\ wk = [ w \in Workers |-> WkIdle ]
    /\ llamada = SinLlamada
    /\ ws = SinConexion

\* cambios tells that another request committed while the loop ran
Anota ==
    IF ~SinLlamar /\ llamada.pc = "for" THEN [ llamada EXCEPT !.cambios = TRUE ]
    ELSE llamada

\* a request of another worker commits: a row is created, a row gets
\* another embedding (update_usuario with an image), a row is deleted
OtroCrea ==
    /\ next_id <= MaxId
    /\ \E embedding \in EmbeddingsScan :
         usuarios' = crear_usuario(usuarios, next_id,
                                   nuevo_usuario(NombreFila(next_id), "Paz",
                                                 IF next_id = 2 THEN "b@x.io" ELSE "c@x.io",
                                                 embedding, SinImagen)).usuarios
    /\ next_id' = next_id + 1
    /\ llamada' = Anota
    /\ UNCHANGED << imagenes, tokens_validos, resp, wk, ws >>

OtroActualiza ==
    /\ \E usuario_id \in DOMAIN usuarios, embedding \in EmbeddingsScan :
         /\ usuarios[usuario_id].embedding # embedding
         /\ usuarios' = [ usuarios EXCEPT ![usuario_id].embedding = embedding ]
    /\ llamada' = Anota
    /\ UNCHANGED << next_id, imagenes, tokens_validos, resp, wk, ws >>

OtroElimina ==
    /\ \E usuario_id \in DOMAIN usuarios :
         usuarios' = eliminar_usuario(usuarios, usuario_id)
    /\ llamada' = Anota
    /\ UNCHANGED << next_id, imagenes, tokens_validos, resp, wk, ws >>

\* usuarios = obtener_usuarios(db): the call reads the table, once
ScanLee ==
    /\ SinLlamar
    /\ \E fn \in { "validarRostroDuplicado", "compararRostro" } :
       \E snap \in obtener_usuarios(usuarios), embedding \in EmbeddingsScan :
       \E excluir_usuario_id \in IF fn = "compararRostro" THEN { 0 } ELSE { 0, 1 } :
         llamada' = [ fn |-> fn, usuarios |-> snap, contenido |-> "foto",
                      cap |-> [ kind |-> "list_dicts", embedding |-> embedding ],
                      embedding |-> embedding,
                      excluir_usuario_id |-> excluir_usuario_id,
                      pc |-> "for", i |-> 1, menor_distancia |-> inf,
                      usuario_reconocido |-> 0, cambios |-> FALSE,
                      res |-> [ id |-> 0, distancia |-> inf ] ]
    /\ UNCHANGED << usuarios, next_id, imagenes, tokens_validos, resp, wk, ws >>

\* Faulty variant of FilaScan: the loop takes the row from the table again.
FilaScan_relee(i) ==
    LET id == llamada.usuarios[i].id IN
    IF id \in DOMAIN usuarios THEN usuarios[id]
    ELSE [ llamada.usuarios[i] EXCEPT !.embedding = <<>> ]

\* "for usuario in usuarios": the i-th element of the list read
FilaScan(i) == llamada.usuarios[i]

\* one turn of the loop of validarRostroDuplicado, or its end
PasoDuplicado ==
    LET l == llamada
        usuario == FilaScan(l.i)
        distancia == cosine(l.embedding, usuario.embedding)
    IN IF l.i > Len(l.usuarios)
       THEN [ l EXCEPT !.pc = "fin" ]
       ELSE IF l.excluir_usuario_id # 0 /\ usuario.id = l.excluir_usuario_id
       THEN [ l EXCEPT !.i = l.i + 1 ]
       ELSE IF usuario.embedding = <<>>
       THEN [ l EXCEPT !.i = l.i + 1 ]
       ELSE IF distancia = ValueError
       THEN [ l EXCEPT !.pc = "fin", !.res = [ id |-> -1, distancia |-> ValueError ] ]
       ELSE IF BajoUmbral(distancia)
       THEN [ l EXCEPT !.pc = "fin",
                       !.res = [ id |-> usuario.id, distancia |-> distancia ] ]
       ELSE [ l EXCEPT !.i = l.i + 1 ]

\* one turn of the loop of compararRostro, or the decision after it; res
\* holds the index of the row whose name is returned (0: None, -1: raised)
PasoComparar ==
    LET l == llamada
        usuario == FilaScan(l.i)
        distancia == cosine(l.embedding, usuario.embedding)
    IN IF Len(l.usuarios) = 0
       THEN [ l EXCEPT !.pc = "fin", !.res = [ id |-> -1, distancia |-> inf ] ]
       ELSE IF l.i > Len(l.usuarios)
       THEN [ l EXCEPT !.pc = "fin",
                !.res = [ id |-> IF BajoUmbral(l.menor_distancia)
                                    /\ l.usuario_reconocido # 0
                                 THEN l.usuarios[l.usuario_reconocido].id ELSE 0,
                          distancia |-> l.menor_distancia ] ]
       ELSE IF usuario.embedding = <<>>
       THEN [ l EXCEPT !.i = l.i + 1 ]
       ELSE IF distancia = ValueError
       THEN [ l EXCEPT !.pc = "fin", !.res = [ id |-> -1, distancia |-> ValueError ] ]
       ELSE IF DistLT(distancia, l.menor_distancia)
       THEN [ l EXCEPT !.i = l.i + 1, !.menor_distancia = distancia,
                       !.usuario_reconocido = l.i ]
       ELSE [ l EXCEPT !.i = l.i + 1 ]

ScanPaso ==
    /\ ~SinLlamar
    /\ llamada.pc = "for"
    /\ llamada' = IF llamada.fn = "validarRostroDuplicado" THEN PasoDuplicado
                  ELSE PasoComparar
    /\ UNCHANGED << usuarios, next_id, imagenes, tokens_validos, resp, wk, ws >>

NextScan ==
    \/ ScanLee
    \/ ScanPaso
    \/ OtroCrea
    \/ OtroActualiza
    \/ OtroElimina

SpecScan == InitScan /\ [][NextScan]_vars

(***************************************************************************)
(* websocket_validar_rostro (main.py): one connection to /ws/validarRostro. *)
(* AuthMiddleware hands a scope that is not "http" on without a check.     *)
(* One turn of the loop, from websocket.receive() to the frame it sends,   *)
(* is one step.                                                            *)
(***************************************************************************)
MaxMensajes == 3

Absent == "absent"

\* base64.b64decode on the strings a client sends
b64decode(imagen_base64) ==
    CASE imagen_base64 = ""             -> [ ok |-> TRUE, bytes |-> "" ]
      [] imagen_base64 = "Z2FyYmFnZQ==" -> [ ok |-> TRUE, bytes |-> "garbage" ]
      [] imagen_base64 = "Zm90bw=="     -> [ ok |-> TRUE, bytes |-> "foto" ]
      [] OTHER                          -> [ ok |-> FALSE, bytes |-> "" ]

Base64In == { "", "Z2FyYmFnZQ==", "Zm90bw==", "Zm90bw=", Absent }

\* the text of a text frame, by what json.loads makes of it
Texto(forma, tipo, imagen, content_type) ==
    [ forma |-> forma, tipo |-> tipo, imagen |-> imagen, content_type |-> content_type ]

SinTexto == Texto("", "", Absent, Absent)

TextosWs ==
    { Texto("no_json", "", Absent, Absent), Texto("lista", "", Absent, Absent),
      Texto("objeto", "keepalive", Absent, Absent),
      Texto("objeto", "otro", Absent, Absent),
      Texto("objeto", Absent, Absent, Absent) }
    \cup { Texto("objeto", "imagen", imagen, content_type) :
             imagen \in Base64In,
             content_type \in ContentTypes \cup { Absent } }

\* what websocket.receive() returns: a frame of the client, the disconnect
\* message, or nothing within 30 seconds (asyncio.TimeoutError)
Mensaje(type, bytes, text) == [ type |-> type, bytes |-> bytes, text |-> text ]

MensajesCliente ==
    { Mensaje("bytes", contenido, SinTexto) : contenido \in Contenidos }
    \cup { Mensaje("text", "", text) : text \in TextosWs }

Disconnect == Mensaje("disconnect", "", SinTexto)
TimeoutError == Mensaje("timeout", "", SinTexto)

\* a frame of send_text(json.dumps(...)); a key the dict does not hold is
\* Absent (0 for status_code)
Frame(tipo, ok, mensaje, rostro_detectado, status_code) ==
    [ tipo |-> tipo, ok |-> ok, mensaje |-> mensaje,
      rostro_detectado |-> rostro_detectado, status_code |-> status_code ]

Conexion == Frame("conexion", Absent, "Conectado", Absent, 0)
Keepalive == Frame("keepalive", Absent, "Conexión activa", Absent, 0)
SinFrame == Frame("", Absent, "", Absent, 0)
Falso(mensaje) == Frame(Absent, "false", mensaje, Absent, 0)

\* what one turn of the loop makes of the message it received: the frame
\* it sends (SinFrame when it sends none), whether it called
\* validarRostroRapido, and the content_type it checked
Turno(frame, detector, content_type) ==
    [ frame |-> frame, detector |-> detector, content_type |-> content_type ]

\* lines 620-653: the call of validarRostroRapido and its answer
responder(contenido_imagen, content_type, det) ==
    LET r == validarRostroRapido(contenido_imagen, det) IN
    IF ~r.ok
    THEN Turno(Frame(Absent, "false", r.detail, Absent, r.status), 1, content_type)
    ELSE IF r.ret
    THEN Turno(Frame(Absent, "true", "Rostro detectado correctamente", "true", 0),
               1, content_type)
    ELSE Turno(Frame(Absent, "false", "No se detectó ningún rostro en la imagen",
                     "false", 0), 1, content_type)

\* lines 606-618: the checks of contenido_imagen and content_type
comprobar(contenido_imagen, content_type, det) ==
    IF contenido_imagen = ""
    THEN Turno(Falso("No se recibió imagen válida"), 0, content_type)
    ELSE IF content_type \notin TiposPermitidos
    THEN Turno(Falso("Tipo de archivo no permitido. Solo JPEG o PNG"), 0, content_type)
    ELSE responder(contenido_imagen, content_type, det)

\* lines 566-653: one turn of the loop on the message received
procesar(mensaje, det) ==
    IF mensaje.type = "bytes"
    THEN comprobar(mensaje.bytes, "image/jpeg", det)
    ELSE IF mensaje.type = "text"
    THEN LET data == mensaje.text IN
         IF data.forma = "no_json" THEN Turno(Falso("Error al parsear JSON"), 0, Absent)
         ELSE IF data.forma = "lista"
         THEN Turno(Falso("Error al procesar imagen: "), 0, Absent)
         ELSE IF data.tipo = "keepalive" THEN Turno(SinFrame, 0, Absent)
         ELSE IF data.tipo = "imagen"
         THEN LET imagen_base64 == IF data.imagen = Absent THEN "" ELSE data.imagen
                  content_type == IF data.content_type = Absent THEN "image/jpeg"
                                  ELSE data.content_type
                  contenido_imagen == b64decode(imagen_base64)
              IN IF ~contenido_imagen.ok
                 THEN Turno(Falso("Error al procesar imagen: "), 0, content_type)
                 ELSE comprobar(contenido_imagen.bytes, content_type, det)
         ELSE Turno(Falso("Formato JSON inválido"), 0, Absent)
    ELSE Turno(Falso("No se recibió imagen válida"), 0, Absent)

\* await websocket.accept() and the greeting
WsConecta ==
    /\ ws.pc = "sin_conexion"
    /\ ws' = [ pc |-> "abierto", conectado |-> TRUE,
               recibido |-> Mensaje("", "", SinTexto), enviado |-> Conexion,
               enviados |-> 0, detector |-> 0, content_type |-> Absent ]
    /\ UNCHANGED << usuarios, next_id, imagenes, tokens_validos, resp, wk, llamada >>

\* the client closes or the connection is lost between two turns
WsClienteSeVa ==
    /\ ws.pc = "abierto"
    /\ ws.conectado
    /\ ws' = [ ws EXCEPT !.conectado = FALSE ]
    /\ UNCHANGED << usuarios, next_id, imagenes, tokens_validos, resp, wk, llamada >>

\* Faulty variant of TrasTurno: the loop is left after an answer that
\* reports an error.
TrasTurno_cierra_en_error(mensaje, t, sigue) ==
    IF t.frame = SinFrame
    THEN [ ws EXCEPT !.recibido = mensaje, !.enviado = SinFrame,
                     !.detector = t.detector, !.content_type = t.content_type,
                     !.conectado = sigue ]
    ELSE IF sigue
    THEN [ ws EXCEPT !.pc = IF t.frame.status_code # 0 THEN "fin" ELSE "abierto",
                     !.recibido = mensaje, !.enviado = t.frame,
                     !.enviados = ws.enviados + 1,
                     !.detector = t.detector, !.content_type = t.content_type ]
    ELSE [ ws EXCEPT !.pc = "fin", !.recibido = mensaje, !.enviado = SinFrame,
                     !.detector = t.detector, !.content_type = t.content_type,
                     !.conectado = FALSE ]

\* the state after a turn that received mensaje: a frame to send reaches a
\* client that is still there; a send_text to a client that is gone raises,
\* the handlers around it fail on their own send_text, and the exception
\* leaves the loop ("break" for the keepalive)
TrasTurno(mensaje, t, sigue) ==
    IF t.frame = SinFrame
    THEN [ ws EXCEPT !.recibido = mensaje, !.enviado = SinFrame,
                     !.detector = t.detector, !.content_type = t.content_type,
                     !.conectado = sigue ]
    ELSE IF sigue
    THEN [ ws EXCEPT !.recibido = mensaje, !.enviado = t.frame,
                     !.enviados = ws.enviados + 1,
                     !.detector = t.detector, !.content_type = t.content_type ]
    ELSE [ ws EXCEPT !.pc = "fin", !.recibido = mensaje, !.enviado = SinFrame,
                     !.detector = t.detector, !.content_type = t.content_type,
                     !.conectado = FALSE ]

\* one turn of "while True": a client that is there sends a frame or stays
\* silent for 30 seconds, and may be gone before the answer is sent; of a
\* client that is gone the server gets the disconnect message or nothing
WsTurno ==
    /\ ws.pc = "abierto"
    /\ ws.enviados < MaxMensajes
    /\ \/ /\ ws.conectado
          /\ \E mensaje \in MensajesCliente, det \in Detecciones, sigue \in BOOLEAN :
               ws' = TrasTurno(mensaje, procesar(mensaje, det), sigue)
       \/ /\ ws.conectado
          /\ \E sigue \in BOOLEAN :
               ws' = TrasTurno(TimeoutError, Turno(Keepalive, 0, Absent), sigue)
       \/ /\ ~ws.conectado
          /\ ws' = TrasTurno(Disconnect, procesar(Disconnect, "0"), FALSE)
       \/ /\ ~ws.conectado
          /\ ws' = TrasTurno(TimeoutError, Turno(Keepalive, 0, Absent), FALSE)
    /\ UNCHANGED << usuarios, next_id, imagenes, tokens_validos, resp, wk, llamada >>

NextWs ==
    \/ WsConecta
    \/ WsTurno
    \/ WsClienteSeVa

SpecWs == Init /\ [][NextWs]_vars

(***************************************************************************)
(* Properties.                                                             *)
(***************************************************************************)

\* C1: after any sequence of enrollments, image replacements and deletions
\* run one at a time, every two distinct stored identities have embeddings
\* whose cosine distance is at least UMBRAL_SIMILITUD.
C1_SinRostroCompartido ==
    \A i, j \in DOMAIN usuarios :
      i # j => ~BajoUmbral(cosine(usuarios[i].embedding, usuarios[j].embedding))

\* two identities are stored, the second renamed by an update, and the last
\* request was an update that succeeded
C1_Witness ==
    /\ DOMAIN usuarios = { 1, 2 }
    /\ usuarios[2].nombre = " "
    /\ usuarios[1].embedding # usuarios[2].embedding
    /\ resp = Respuesta("updateUsuario", 200, "actualizado")

\* C2 as stated: when two enrollment requests with embeddings within the
\* threshold of each other both ran validarRostroDuplicado before either
\* committed (neither check read the other's row), at most one of them has
\* created an identity.
C2_ALoSumoUnoCrea ==
    \A a, b \in Workers :
      ~ ( /\ a # b
          /\ wk[a].pc = "fin"
          /\ wk[b].pc = "fin"
          /\ BajoUmbral(cosine(wk[a].embedding, wk[b].embedding))
          /\ wk[a].id \notin wk[b].visto
          /\ wk[b].id \notin wk[a].visto )

\* C2, amended: a request whose validarRostroDuplicado read the row another
\* enrollment committed, with an embedding within the threshold of that
\* row's, creates no identity; two identities within the threshold of each
\* other are both created only when neither check read the other's row.
C2_DuplicadoVistoNoCrea ==
    \A a, b \in Workers :
      ( /\ a # b
        /\ wk[a].pc = "fin"
        /\ wk[b].pc \in { "subir", "crear", "fin" }
        /\ wk[a].id \in DOMAIN usuarios
        /\ BajoUmbral(cosine(usuarios[wk[a].id].embedding, wk[b].embedding)) )
      => wk[a].id \notin wk[b].visto

\* one request has committed and the other, sent with an embedding within
\* the threshold of the committed row, has just been refused with the 409
C2_Witness ==
    /\ \E a \in Workers :
         /\ wk[a].pc = "fin"
         /\ \E b \in Workers : b # a /\ wk[b].pc = "idle"
         /\ usuarios[wk[a].id].embedding = <<1, 0>>
    /\ resp = Respuesta("subirUsuario", 409, "Rostro duplicado")

\* C3: on every store the program reaches, crearUsuario called with an
\* embedding within the threshold of some stored identity's leaves the rows
\* and the stored pictures as they were, and, its field checks passed, the
\* error it raises is the 409 of the duplicate face.
C3_DuplicadoNoCreaNada ==
    \A nombre \in NombresIn, apellido \in ApellidosIn, email \in EmailsIn,
       embedding \in EmbeddingsFoto, disco_ok \in BOOLEAN :
      \A snap \in obtener_usuarios(usuarios) :
        (\E i \in DOMAIN usuarios :
           BajoUmbral(cosine(embedding, usuarios[i].embedding)))
        => LET r == crearUsuario(usuarios, next_id, imagenes, nombre, apellido,
                                 email, embedding, snap, disco_ok)
           IN /\ r.usuarios = usuarios
              /\ r.imagenes = imagenes
              /\ r.next_id = next_id
              /\ r.resp.status # 200
              /\ campos_invalidos(nombre, apellido, email, embedding) = ""
                 => r.resp = Respuesta("subirUsuario", 409, "Rostro duplicado")

\* an identity is stored, the volume has room, and POST /subirUsuario has
\* just been refused with the 409 of the duplicate face
C3_Witness ==
    /\ usuarios # << >>
    /\ Cardinality(imagenes) < MaxImagenes
    /\ resp = Respuesta("subirUsuario", 409, "Rostro duplicado")

\* C4 as stated: when an update that replaces the image is refused by the
\* duplicate check, the stored identity (name fields, email, embedding,
\* image reference) is what it was before the request.
C4_RechazoNoPersisteNada ==
    [][ resp' = Respuesta("updateUsuario", 409, "Rostro duplicado")
        => usuarios' = usuarios ]_vars

\* C5: validarRostroDuplicado raises the 409 exactly when some row other
\* than the excluded identity's lies at a distance strictly below the
\* threshold from the embedding; the row it raises for is the first such
\* row of the list, and without such a row it returns.
C5_DuplicadoSiiPrimeroBajoUmbral ==
    llamada.fn = "validarRostroDuplicado" =>
      LET us == llamada.usuarios
          q == llamada.embedding
          x == llamada.excluir_usuario_id
          r == llamada.res
          cand == { i \in 1..Len(us) :
                      /\ us[i].id # x
                      /\ BajoUmbral(cosine(q, us[i].embedding)) }
      IN /\ r.id # 0 <=> cand # {}
         /\ cand # {} =>
              LET p == CHOOSE i \in cand : \A j \in cand : i <= j
              IN /\ r.id = us[p].id
                 /\ r.distancia = cosine(q, us[p].embedding)

\* two rows of another identity lie under the threshold, the first of them
\* is not the first row of the list, and the 409 names it
C5_Witness ==
    /\ llamada.fn = "validarRostroDuplicado"
    /\ Len(llamada.usuarios) = 3
    /\ ~BajoUmbral(cosine(llamada.embedding, llamada.usuarios[1].embedding))
    /\ BajoUmbral(cosine(llamada.embedding, llamada.usuarios[2].embedding))
    /\ BajoUmbral(cosine(llamada.embedding, llamada.usuarios[3].embedding))
    /\ llamada.excluir_usuario_id = 0
    /\ llamada.res.id = llamada.usuarios[2].id

\* C6: validarRostroDuplicado called with excluir_usuario_id = X never
\* raises for X's own row, also when the embedding is the one X has stored;
\* when it raises, it is for the row of another identity that lies under
\* the threshold.
C6_NuncaFallaPorElExcluido ==
    (llamada.fn = "validarRostroDuplicado" /\ llamada.excluir_usuario_id # 0) =>
      LET us == llamada.usuarios
          q == llamada.embedding
          x == llamada.excluir_usuario_id
          r == llamada.res
      IN /\ r.id # x
         /\ r.id # 0 =>
              \E i \in 1..Len(us) :
                /\ us[i].id = r.id
                /\ us[i].id # x
                /\ BajoUmbral(cosine(q, us[i].embedding))
         /\ (\A i \in 1..Len(us) :
               us[i].id # x => ~BajoUmbral(cosine(q, us[i].embedding)))
            => r.id = 0

\* the embedding is the one the excluded identity has stored, another row
\* is in the list, and the call returns
C6_Witness ==
    /\ llamada.fn = "validarRostroDuplicado"
    /\ Len(llamada.usuarios) >= 2
    /\ llamada.usuarios[1].id = llamada.excluir_usuario_id
    /\ llamada.usuarios[1].embedding = llamada.embedding
    /\ llamada.res.id = 0

\* C7: on a list that is not empty, compararRostro (of either revision,
\* each with its threshold) recognises a face only when the minimum
\* distance over all rows is below the threshold, and the identity it
\* names attains that minimum; it answers not recognised only when that
\* minimum is at or above the threshold.
C7_UmbralYMinimo ==
    ( /\ llamada.fn \in { "compararRostro", "compararRostro_face_service" }
      /\ Len(llamada.usuarios) > 0
      /\ ~llamada.res.raised ) =>
      LET us == llamada.usuarios
          q == llamada.embedding
          r == llamada.res
          d == r.menor_distancia
          bajo == IF llamada.fn = "compararRostro"
                  THEN BajoUmbral(d) ELSE BajoUmbral040(d)
      IN /\ \E i \in 1..Len(us) : DistEQ(cosine(q, us[i].embedding), d)
         /\ \A j \in 1..Len(us) : ~DistLT(cosine(q, us[j].embedding), d)
         /\ r.ret.nombre # None =>
              /\ bajo
              /\ \E i \in 1..Len(us) :
                   /\ us[i].id = r.usuario_reconocido
                   /\ us[i].nombre = r.ret.nombre
                   /\ DistEQ(cosine(q, us[i].embedding), d)
         /\ r.ret.nombre = None => ~bajo

\* the first row lies under the threshold, the second lies nearer, and the
\* second is the one recognised
C7_Witness ==
    /\ llamada.fn = "compararRostro"
    /\ Len(llamada.usuarios) >= 2
    /\ ~llamada.res.raised
    /\ BajoUmbral(cosine(llamada.embedding, llamada.usuarios[1].embedding))
    /\ llamada.res.ret.nombre = llamada.usuarios[2].nombre
    /\ llamada.res.usuario_reconocido = llamada.usuarios[2].id

\* C8: compararRostro on an empty list raises the 404 and never answers
\* not recognised.
C8_SinUsuarios404 ==
    ( /\ llamada.fn \in { "compararRostro", "compararRostro_face_service" }
      /\ Len(llamada.usuarios) = 0 ) =>
      /\ llamada.res.raised
      /\ llamada.embedding # <<>> => llamada.res.status = 404

\* a face was extracted, the list is empty and the 404 is raised
C8_Witness ==
    /\ llamada.fn = "compararRostro"
    /\ Len(llamada.usuarios) = 0
    /\ llamada.embedding # <<>>
    /\ llamada.res.raised
    /\ llamada.res.detail = "Sin usuarios"

\* C9: of the rows at the minimum distance from the query, compararRostro
\* selects the one that comes first in the list.
C9_PrimeroEnEmpate ==
    ( /\ llamada.fn \in { "compararRostro", "compararRostro_face_service" }
      /\ Len(llamada.usuarios) > 0
      /\ ~llamada.res.raised ) =>
      LET us == llamada.usuarios
          q == llamada.embedding
          minimos == { i \in 1..Len(us) :
                         \A j \in 1..Len(us) :
                           ~DistLT(cosine(q, us[j].embedding),
                                   cosine(q, us[i].embedding)) }
          p == CHOOSE i \in minimos : \A j \in minimos : i <= j
      IN llamada.res.usuario_reconocido = us[p].id

\* two rows with different embeddings lie at the same minimum distance,
\* after a row that lies farther, and the first of the two is selected
C9_Witness ==
    /\ llamada.fn = "compararRostro"
    /\ Len(llamada.usuarios) = 3
    /\ ~llamada.res.raised
    /\ llamada.usuarios[2].embedding # llamada.usuarios[3].embedding
    /\ DistEQ(cosine(llamada.embedding, llamada.usuarios[2].embedding),
              cosine(llamada.embedding, llamada.usuarios[3].embedding))
    /\ DistLT(cosine(llamada.embedding, llamada.usuarios[2].embedding),
              cosine(llamada.embedding, llamada.usuarios[1].embedding))
    /\ llamada.res.usuario_reconocido = llamada.usuarios[2].id
    /\ llamada.res.ret.nombre # None

C11_NoConvierteFallos ==
    ( /\ llamada.fn \in { "validarRostro", "validarRostro_face_service" }
      /\ llamada.contenido = "foto" ) =>
      LET k == llamada.cap.kind
          sin_rostro == IF llamada.fn = "validarRostro"
                        THEN { "None", "empty_list" }
                        ELSE { "None", "empty_list", "ValueError" }
          fallo == IF llamada.fn = "validarRostro"
                   THEN { "ValueError", "ImportError", "Exception" }
                   ELSE { "ImportError", "Exception" }
      IN /\ k \in fallo => llamada.res.status = 500
         /\ k \in sin_rostro => llamada.res.status = 400

\* C15 as stated: when the scan of an operation reaches an enrolled
\* embedding whose length differs from the query's, the operation fails
\* with the error of the comparison itself, not with another kind of error:
\* compararRostro, crearUsuario and the image part of update_usuario all
\* answer with the uncaught ValueError (the 500 of the server), and none
\* reports a match, a duplicate or a success.
C15_DimensionNoEnmascarada ==
    \A q \in EmbeddingsFoto : \A snap \in obtener_usuarios(usuarios) :
      LET cap == [ kind |-> "list_floats", embedding |-> q ]
          SinMascara(r) == r.status = 500 /\ r.detail = "Internal Server Error"
      IN
      /\ (\E i \in 1..Len(snap) : Len(snap[i].embedding) # Len(q))
         => LET c == compararRostro(snap, "foto", cap)
            IN c.raised /\ SinMascara(c) /\ c.ret = RetornoNone
      /\ validarRostroDuplicado(snap, q, 0).id < 0
         => \A nombre \in NombresIn, apellido \in ApellidosIn, email \in EmailsIn :
              campos_invalidos(nombre, apellido, email, q) = ""
              => LET r == crearUsuario(usuarios, next_id, imagenes, nombre, apellido,
                                       email, q, snap, TRUE)
                 IN SinMascara(r.resp) /\ r.usuarios = usuarios
      /\ \A usuario_id \in DOMAIN usuarios :
           (tokens_validos # {} /\ validarRostroDuplicado(snap, q, usuario_id).id < 0)
           => SinMascara(update_usuario_imagen(usuarios, imagenes, usuario_id,
                                               "foto", cap, snap, TRUE, TRUE).resp)

\* C12: validarRostro raises the 400 of an invalid image whenever the bytes
\* are empty or do not decode, and then DeepFace.represent is not called;
\* on bytes that decode it does not raise that error.
C12_ImagenInvalidaSinRepresent ==
    llamada.fn = "validarRostro" =>
      LET r == llamada.res
          invalida == ~r.ok /\ r.status = 400
                      /\ r.detail \in { "Sin imagen", "Imagen invalida" }
      IN /\ llamada.contenido \in { "", "garbage" } => invalida /\ r.represent = 0
         /\ llamada.contenido = "foto" => ~invalida
         /\ llamada.contenido = "" => r.detail = "Sin imagen"
         /\ llamada.contenido = "garbage" => r.detail = "Imagen invalida"

\* bytes that do not decode, on which DeepFace.represent would have given
\* an embedding, are refused
C12_Witness ==
    /\ llamada.fn = "validarRostro"
    /\ llamada.contenido = "garbage"
    /\ llamada.cap.kind = "list_dicts"
    /\ llamada.cap.embedding # <<>>
    /\ llamada.res.detail = "Imagen invalida"
    /\ llamada.res.represent = 0

\* C13: whatever the shape of the result of DeepFace.represent, validarRostro
\* returns an embedding only if it is not empty: zero faces raise the 400
\* of no face, an embedding of length zero the 400 of an invalid face.
C13_EmbeddingNuncaVacio ==
    llamada.fn = "validarRostro" =>
      LET r == llamada.res
          c == llamada.cap
      IN /\ r.ok => r.embedding # <<>> /\ r.embedding = c.embedding
         /\ ~r.ok => r.embedding = <<>>
         /\ (llamada.contenido = "foto" /\ c.kind \in { "None", "empty_list" })
            => ~r.ok /\ r.status = 400 /\ r.detail = "Sin rostro"
         /\ ( /\ llamada.contenido = "foto"
              /\ c.kind \in { "list_dicts", "dict" }
              /\ c.embedding = <<>> )
            => ~r.ok /\ r.status = 400 /\ r.detail = "Rostro invalido"

\* a dict whose embedding has length zero is refused as an invalid face
C13_Witness ==
    /\ llamada.fn = "validarRostro"
    /\ llamada.contenido = "foto"
    /\ llamada.cap = [ kind |-> "dict", embedding |-> <<>> ]
    /\ llamada.res.detail = "Rostro invalido"

\* C14: one call of validarRostro or of compararRostro calls
\* DeepFace.represent at most once, and when it fails the caller gets the
\* failure; validarRostroDuplicado is given the embedding and does not call
\* it.
C14_RepresentALoSumoUnaVez ==
    /\ llamada.fn \in { "validarRostro", "compararRostro" } =>
         /\ llamada.res.represent <= 1
         /\ llamada.contenido = "foto" => llamada.res.represent = 1
    /\ ( /\ llamada.fn = "validarRostro"
         /\ llamada.contenido = "foto"
         /\ llamada.cap.kind = "Exception" )
       => ~llamada.res.ok /\ llamada.res.status = 500
    /\ llamada.fn = "compararRostro" =>
         LET v == validarRostro(llamada.contenido, llamada.cap)
         IN v.ok \/ ( /\ llamada.res.raised
                      /\ llamada.res.status = v.status
                      /\ llamada.res.detail = v.detail )

\* DeepFace.represent raised, once, and the caller was given the 500
C14_Witness ==
    /\ llamada.fn = "validarRostro"
    /\ llamada.contenido = "foto"
    /\ llamada.cap.kind = "Exception"
    /\ llamada.res.represent = 1
    /\ llamada.res.status = 500

\* C18: validarRostroRapido raises the error of an invalid image on the
\* inputs on which validarRostro raises it, empty bytes and bytes that do
\* not decode, and on no other; on a picture that decodes it returns TRUE
\* exactly when its detector reports at least one face, whatever
\* DeepFace.represent would make of the picture, and its result holds no
\* embedding.
C18_RapidoMismasReglas ==
    llamada.fn = "validarRostroRapido" =>
      LET r == llamada.res
          e == validarRostro(llamada.contenido, llamada.cap)
          Invalida(x) == ~x.ok /\ x.status = 400
                         /\ x.detail \in { "Sin imagen", "Imagen invalida" }
      IN /\ Invalida(r) <=> Invalida(e)
         /\ Invalida(r) <=> llamada.contenido \in { "", "garbage" }
         /\ Invalida(r) => r.detail = e.detail
         /\ (llamada.contenido = "foto" /\ llamada.det # "Exception")
            => r.ok /\ (r.ret <=> llamada.det \in { "1", "2" })
         /\ r.ret => r.ok /\ llamada.det \in { "1", "2" }
         /\ DOMAIN r = { "ok", "status", "detail", "ret" }

\* the detector reports two faces on a picture in which DeepFace.represent
\* finds none, and the call returns TRUE
C18_Witness ==
    /\ llamada.fn = "validarRostroRapido"
    /\ llamada.contenido = "foto"
    /\ llamada.det = "2"
    /\ llamada.cap.kind = "None"
    /\ llamada.res.ok
    /\ llamada.res.ret

\* C16: the distance of the matcher is symmetric: for the embedding of a
\* call and every row of its snapshot, of the same length, the distance
\* from the one to the other equals the distance back, so that the row is a
\* duplicate of the embedding exactly when the embedding, enrolled in the
\* place of the row, is a duplicate of the row's.
C16_DistanciaSimetrica ==
    llamada.fn \in { "validarRostroDuplicado", "compararRostro" } =>
      LET us == llamada.usuarios
          q == IF llamada.fn = "compararRostro"
               THEN validarRostro(llamada.contenido, llamada.cap).embedding
               ELSE llamada.embedding
      IN \A i \in 1..Len(us) :
           Len(us[i].embedding) = Len(q) /\ q # <<>> =>
             LET e == us[i].embedding
                 ida == validarRostroDuplicado(<< us[i] >>, q, 0)
                 vuelta == validarRostroDuplicado(<< [ us[i] EXCEPT !.embedding = q ] >>,
                                                  e, 0)
             IN /\ cosine(q, e) = cosine(e, q)
                /\ DistEQ(cosine(q, e), cosine(e, q))
                /\ BajoUmbral(cosine(q, e)) <=> BajoUmbral(cosine(e, q))
                /\ (ida.id # 0) <=> (vuelta.id # 0)
                /\ ida.distancia = vuelta.distancia

\* a call whose embedding and first row differ in norm and are duplicates
\* of each other
C16_Witness ==
    /\ llamada.fn = "validarRostroDuplicado"
    /\ llamada.embedding = <<1, 0>>
    /\ Len(llamada.usuarios) >= 1
    /\ llamada.usuarios[1].embedding = <<1, 1>>
    /\ llamada.usuarios[1].id # llamada.excluir_usuario_id
    /\ llamada.res.id = llamada.usuarios[1].id

\* the square of 1 - distancia against c/10000, for a distance below 1
Cos2Mayor(d, c) == d # inf /\ d.num > 0 /\ d.num * d.num * 10000 > c * d.den2

Cos2Menor(d, c) == d # inf /\ d.num > 0 /\ d.num * d.num * 10000 < c * d.den2

\* a recorded call of compararRostro on the store of the two orthogonal
\* unit embeddings
EnEscenario(q) ==
    /\ llamada.fn = "compararRostro"
    /\ llamada.usuarios \in EnroladosEscenario
    /\ llamada.embedding = q

\* C17 as stated: on enrolled = [(1, [1,0,0]), (2, [0,1,0])] the query
\* [0.99, 0.14, 0] is matched to identity 1 at a distance of about 0.0003
\* (between 0.0002 and 0.0004, that is (1 - d)^2 between 0.9992 and
\* 0.9996), and the query [0,0,1] is not matched, at distance 1.0.
C17_EscenarioDistancia00003 ==
    /\ EnEscenario(<<99, 14, 0>>) =>
         /\ llamada.res.usuario_reconocido = 1
         /\ llamada.res.ret.nombre = NombreFila(1)
         /\ Cos2Mayor(llamada.res.menor_distancia, 9992)
         /\ Cos2Menor(llamada.res.menor_distancia, 9996)
    /\ EnEscenario(<<0, 0, 1>>) =>
         /\ llamada.res.ret.nombre = None
         /\ llamada.res.menor_distancia.num = 0

\* C17: on that store compararRostro, whose threshold is the constant 0.33,
\* answers the query [0.99, 0.14, 0] with the name of identity 1; the
\* distance it found is 1 - 0.99/sqrt(0.9997), about 0.0099 ((1 - d)^2
\* between 0.9803 and 0.9805), which is below 0.05 as well ((1 - d)^2 above
\* 0.9025).  It answers the query [0,0,1] with None, the distance to both
\* rows being exactly 1.0.  Neither call raises, and the order of the rows
\* makes no difference.
C17_EscenarioDistancia ==
    /\ EnEscenario(<<99, 14, 0>>) =>
         /\ ~llamada.res.raised
         /\ llamada.res.usuario_reconocido = 1
         /\ llamada.res.ret.nombre = NombreFila(1)
         /\ Cos2Mayor(llamada.res.menor_distancia, 9803)
         /\ Cos2Menor(llamada.res.menor_distancia, 9805)
         /\ Cos2Mayor(llamada.res.menor_distancia, 9025)
         /\ BajoUmbral(llamada.res.menor_distancia)
    /\ EnEscenario(<<0, 0, 1>>) =>
         /\ ~llamada.res.raised
         /\ llamada.res.ret = RetornoNone
         /\ llamada.res.menor_distancia.num = 0
         /\ llamada.res.menor_distancia.den2 > 0
         /\ \A i \in 1..2 :
              cosine(<<0, 0, 1>>, llamada.usuarios[i].embedding).num = 0

\* the call with the query close to identity 1, the row of identity 2 first
C17_Witness ==
    /\ EnEscenario(<<99, 14, 0>>)
    /\ llamada.usuarios[1].id = 2
    /\ llamada.res.ret.nombre = NombreFila(1)

C20_BorraFilaEImagen ==
    [][ /\ resp'.op = "deleteUsuario" /\ resp'.status = 200
          => \E usuario_id \in DOMAIN usuarios :
               /\ usuarios' = eliminar_usuario(usuarios, usuario_id)
               /\ usuario_id \notin DOMAIN usuarios'
               /\ usuarios[usuario_id].imagen \notin imagenes'
        /\ resp'.op = "deleteUsuario" /\ resp'.status = 404
          => usuarios' = usuarios /\ imagenes' = imagenes ]_vars

\* the content type a message of the WebSocket declares: the content_type
\* of a JSON message that holds one, and none otherwise
Declarado(mensaje) ==
    IF mensaje.type = "text" /\ mensaje.text.forma = "objeto"
    THEN mensaje.text.content_type
    ELSE Absent

\* C21 as stated, on the WebSocket: validarRostroRapido is called only for
\* a message whose declared content type is image/jpeg or image/png.
C21_DetectorSoloTipoDeclarado ==
    (ws.pc # "sin_conexion" /\ ws.detector = 1)
      => Declarado(ws.recibido) \in TiposPermitidos

\* C22: a call of validarRostroDuplicado or compararRostro reads the table
\* once, and what it decides is what the function decides on the list it
\* read, whatever rows other requests created, changed or deleted while its
\* loop ran.
C22_DecideDeLoLeido ==
    (llamada.fn # "" /\ llamada.pc = "fin") =>
      LET l == llamada IN
      IF l.fn = "validarRostroDuplicado"
      THEN l.res = validarRostroDuplicado(l.usuarios, l.embedding, l.excluir_usuario_id)
      ELSE LET c == compararRostro(l.usuarios, "foto", l.cap) IN
           /\ c.raised <=> l.res.id = -1
           /\ ~c.raised =>
                /\ l.res.id = IF c.ret.nombre # None THEN c.usuario_reconocido ELSE 0
                /\ l.res.distancia = c.menor_distancia

\* a call found the duplicate in a row that was deleted while its loop ran
C22_Witness ==
    /\ llamada.fn = "validarRostroDuplicado"
    /\ llamada.pc = "fin"
    /\ llamada.cambios
    /\ llamada.res.id = 1
    /\ 1 \notin DOMAIN usuarios

\* the operations whose routes are outside endpoints_publicos
OpsProtegidas == { "updateUsuario", "deleteUsuario", "generarToken", "validarRostroRapido" }

C25_PublicosSinCabecera ==
    \A path \in { "/ws/validarRostro", "/generarToken" } :
      AuthMiddleware(path, None, tokens_validos) = "pasa"

\* identify recognised the face of the recorded request
C24_Reconocido ==
    LET c == compararRostro(llamada.usuarios, llamada.contenido, llamada.cap) IN
    /\ llamada.res.content_type \in TiposPermitidos
    /\ ~c.raised
    /\ c.ret.nombre # None

\* C24 as stated: POST /compararCara answers 200 and adds the token it
\* generated exactly when identify recognised the face; otherwise it
\* answers 401 and adds no token.
C24_200OSi401 ==
    llamada.fn = "comparar_cara" =>
      IF C24_Reconocido
      THEN resp.status = 200 /\ tokens_validos = { llamada.res.token }
      ELSE resp.status = 401 /\ tokens_validos = {}

\* C24, amended: 200 with the generated token added exactly when identify
\* recognised the face; 401 when identify returned without a match; the
\* status identify raised (400, 404, 500) or the 400 of the content-type
\* test otherwise; no token is added unless the answer is 200.
C24_TokenSoloReconocido ==
    llamada.fn = "comparar_cara" =>
      LET c == compararRostro(llamada.usuarios, llamada.contenido, llamada.cap) IN
      /\ C24_Reconocido <=> resp.status = 200
      /\ tokens_validos = IF C24_Reconocido THEN { llamada.res.token } ELSE {}
      /\ ~C24_Reconocido =>
           resp = IF llamada.res.content_type \notin TiposPermitidos
                  THEN Respuesta("compararCara", 400, "Archivo invalido")
                  ELSE IF c.raised THEN Respuesta("compararCara", c.status, c.detail)
                  ELSE Respuesta("compararCara", 401, "No reconocido")
      /\ resp.status \in { 200, 400, 401, 404, 500 }

\* a picture whose extraction failed was answered 400 and added no token
C24_Witness ==
    /\ llamada.fn = "comparar_cara"
    /\ llamada.res.content_type = "image/jpeg"
    /\ llamada.contenido = "garbage"
    /\ Len(llamada.usuarios) > 0
    /\ resp.status = 400
    /\ tokens_validos = {}

\* the message carries an image: raw bytes, or JSON with tipo "imagen"
LlevaImagen(mensaje) ==
    \/ mensaje.type = "bytes"
    \/ /\ mensaje.type = "text"
       /\ mensaje.text.forma = "objeto"
       /\ mensaje.text.tipo = "imagen"

\* C26: on the WebSocket a turn that received a message carrying an image
\* from a client that is still there sends exactly one frame, which has
\* "ok" and "mensaje"; a frame with ok true is sent only after the detector
\* found a face, every other answer to a frame of the client has ok false
\* and leaves the loop running; the loop is left only when the client is
\* gone (its disconnect, or a send that failed).
C26_UnaRespuestaPorImagen ==
    [][ (ws.pc = "abierto" /\ ws' # ws /\ ws' # [ ws EXCEPT !.conectado = FALSE ]) =>
          /\ ws'.pc \in { "abierto", "fin" }
          /\ ws'.pc = "fin" => ~ws'.conectado
          /\ (ws'.pc = "abierto" /\ LlevaImagen(ws'.recibido)) =>
               /\ ws'.enviados = ws.enviados + 1
               /\ ws'.enviado.ok \in { "true", "false" }
               /\ ws'.enviado.mensaje # ""
               /\ ws'.enviado.ok = "true" <=>
                    (ws'.detector = 1 /\ ws'.enviado.rostro_detectado = "true")
          /\ (ws'.pc = "abierto" /\ ws'.recibido \in MensajesCliente
                /\ ws'.enviados # ws.enviados) =>
               /\ ws'.enviados = ws.enviados + 1
               /\ ws'.enviado.ok \in { "true", "false" }
          /\ ws'.enviados \in { ws.enviados, ws.enviados + 1 }
      ]_vars

\* a picture the detector could not decode was answered with ok false and
\* the status of the error, and the connection stayed open
C26_Witness ==
    /\ ws.pc = "abierto"
    /\ ws.conectado
    /\ LlevaImagen(ws.recibido)
    /\ ws.enviado.ok = "false"
    /\ ws.enviado.status_code = 400
    /\ ws.enviados = 2

\* identify classifies the query q as Matched on the rows snap
C27_Matched(snap, q) ==
    LET c == compararRostro(snap, "foto", [ kind |-> "list_dicts", embedding |-> q ]) IN
    ~c.raised /\ c.ret.nombre # None

\* checkDuplicate with no excluded id rejects q against the rows snap
C27_Rechaza(snap, q) == validarRostroDuplicado(snap, q, 0).id > 0

\* C27 as stated: on every non-empty store compararRostro recognises a
\* query embedding exactly when validarRostroDuplicado without an excluded
\* id raises its 409 for the same embedding on the same rows.
C27_CoincidenSiempre ==
    \A q \in EmbeddingsFoto : \A snap \in obtener_usuarios(usuarios) :
      Len(snap) > 0 => (C27_Matched(snap, q) <=> C27_Rechaza(snap, q))

\* C27, amended: the two agree on every non-empty store whose embeddings
\* have the length of the query; on any store a recognised query is
\* rejected as a duplicate, and a query rejected as a duplicate is
\* recognised unless compararRostro fails on a row of another length, which
\* validarRostroDuplicado did not reach.
C27_CoincidenMismaLongitud ==
    \A q \in EmbeddingsFoto : \A snap \in obtener_usuarios(usuarios) :
      Len(snap) > 0 =>
        LET c == compararRostro(snap, "foto", [ kind |-> "list_dicts", embedding |-> q ])
            otra == \E i \in 1..Len(snap) : Len(snap[i].embedding) # Len(q)
        IN
        /\ ~otra => (C27_Matched(snap, q) <=> C27_Rechaza(snap, q))
        /\ C27_Matched(snap, q) => C27_Rechaza(snap, q)
        /\ C27_Rechaza(snap, q) =>
             \/ C27_Matched(snap, q)
             \/ otra /\ c.raised /\ c.status = 500

\* a store of one length on which one query is recognised and rejected as a
\* duplicate and another is neither
C27_Witness ==
    /\ DOMAIN usuarios # {}
    /\ \A id \in DOMAIN usuarios : Len(usuarios[id].embedding) = 2
    /\ \E snap \in obtener_usuarios(usuarios) :
         /\ \E q \in EmbeddingsFoto : C27_Matched(snap, q) /\ C27_Rechaza(snap, q)
         /\ \E q \in EmbeddingsFoto : ~C27_Matched(snap, q) /\ ~C27_Rechaza(snap, q)

\* C28 as stated: after any sequence of enroll, update and delete requests,
\* failed ones included, the image every row refers to exists on the
\* volume.
C28_ImagenReferidaExiste ==
    \A id \in DOMAIN usuarios :
      usuarios[id].imagen # SinImagen => usuarios[id].imagen \in imagenes

\* C29 as stated: after any sequence of enroll, update and delete requests,
\* failed ones included, every image on the volume is the image of exactly
\* one row.
C29_SinHuerfanas ==
    \A ruta \in imagenes :
      Cardinality({ id \in DOMAIN usuarios : usuarios[id].imagen = ruta }) = 1

\* C30 as stated: after any sequence of enroll and update requests every
\* row has a nombre and an apellido that are non-empty after trimming and at
\* most 100 characters long, and an email that is trimmed, lower-case and
\* matches the pattern.
C30_CamposValidos ==
    \A id \in DOMAIN usuarios :
      LET u == usuarios[id] IN
      /\ strip(u.nombre) # ""
      /\ strip(u.apellido) # ""
      /\ ~muy_largo(u.nombre) /\ ~muy_largo(u.apellido)
      /\ u.email = lower(strip(u.email))
      /\ patron_email(u.email)

====
